---- MODULE Spec2Model ----
(***************************************************************************)
(* Freemium access control and usage accounting of the PDF tools backend   *)
(* (src/backend/server.js): the session store, the entitlement checks of   *)
(* /api/process-pdf, the premium grants and the periodic cleanup.          *)
(*                                                                         *)
(* Time is counted in whole days.  A Date is the number of days since the  *)
(* server started; null is NULL.                                           *)
(***************************************************************************)
EXTENDS Integers, FiniteSets, Sequences, Bags, TLC

VARIABLES
    now,           \* the wall clock read by new Date()
    ticks,         \* how often the clock has been seen to advance
    focus,         \* the tool names the clients of this run send
    sessions,      \* the session objects ever created, by userId
    userSessions,  \* the keys present in the userSessions Map
    inflight,      \* process-pdf requests suspended at an await (a bag)
    generatedCodes,\* the generatedCodes Map, by code
    activePayments,\* the activePayments Map, by orderId
    minted,        \* how many premium codes and order ids have been generated
    resp,          \* the HTTP response sent by the last step, NoResp if none
    freeCompleted, \* history: successful free-tier operations per <<userId, tool>>
    outputDir,     \* the result files written to outputDir, by filename
    env            \* process.env: NODE_ENV and ADMIN_TOKEN

vars == <<now, ticks, focus, sessions, userSessions, inflight, generatedCodes,
          activePayments, minted, resp, freeCompleted, outputDir, env>>

----------------------------------------------------------------------------
(* Bounds of the model *)

MaxTicks == 1       \* the clock advances at most this often
MaxSessions == 1    \* userIds that generateUserId mints
MaxInFlight == 2    \* process-pdf requests suspended at the same time
MaxAccounts == 2    \* userIds minted in the runs without document processing
MaxOrders == 1      \* order ids that create-paypal-order mints
MaxCodes == 2       \* premium codes that generatePremiumCode mints
MaxFiles == 6       \* files uploaded with one request

----------------------------------------------------------------------------
(* Program constants *)

NULL == -1
NoUserId == 0            \* the x-user-id header is absent
StrangerId == MaxSessions + MaxAccounts + 1    \* an identifier the server never minted
NoCode == "undefined"    \* the code field of the body is absent
NoOrderId == 0           \* the orderId field of the body is absent

PremiumDays == 1             \* setHours(getHours() + 24)
SessionRetentionDays == 7    \* 7 * 24 * 60 * 60 * 1000
PaymentRetentionDays == 1    \* 24 * 60 * 60 * 1000
CodeRetentionDays == 30      \* 30 * 24 * 60 * 60 * 1000

Tools == {"merge", "compress", "split", "edit", "repair", "convert"}

toolConfigs ==
    [t \in Tools |->
        CASE t = "merge"    -> [requiresPremium |-> FALSE, freeLimit |-> NULL]
          [] t = "compress" -> [requiresPremium |-> FALSE, freeLimit |-> NULL]
          [] t = "split"    -> [requiresPremium |-> FALSE, freeLimit |-> 5]
          [] t = "edit"     -> [requiresPremium |-> FALSE, freeLimit |-> 2]
          [] t = "repair"   -> [requiresPremium |-> FALSE, freeLimit |-> 2]
          [] t = "convert"  -> [requiresPremium |-> FALSE, freeLimit |-> NULL]]

\* toolConfigs is a plain object: a tool name that is a key of Object.prototype
\* also finds a (truthy) value, whose freeLimit is undefined.
ObjectPrototypeKeys == {"constructor"}

NoTool == ""
NoFormat == ""
premiumFormats == {"powerpoint", "images"}
ConvertFormats == {"word", "excel", "text", "powerpoint", "images"}

FiniteTools == {t \in Tools : toolConfigs[t].freeLimit # NULL}

----------------------------------------------------------------------------
(* Inputs of the requests *)

\* The tool field is read only when files were uploaded, and convertTo only
\* for tool = convert: the other combinations are left out.
FileCounts == {0, 1}
BadTools == ObjectPrototypeKeys \cup {NoTool, "bogus"}
ToolInputs(nfiles) ==
    IF nfiles = 0 THEN focus ELSE focus \cup BadTools
FormatInputs(tool) ==
    IF tool = "convert" THEN ConvertFormats \cup {NoFormat, "bogus"} ELSE {NoFormat}
UserIdInputs == {NoUserId, StrangerId} \cup DOMAIN sessions

----------------------------------------------------------------------------
(* Session store *)

\* Mutant: a new session starts with a premium window
NewSessionPremium ==
    [usage |-> [t \in Tools |-> 0], premiumUntil |-> now + PremiumDays,
     createdAt |-> now]

NewSession ==
    [usage |-> [t \in Tools |-> 0], premiumUntil |-> NULL, createdAt |-> now]

generateUserId == Cardinality(DOMAIN sessions) + 1

Known(userId) == userId # NoUserId /\ userId \in userSessions

\* getUserSession(userId): the userId it returns, and the store after it
ResolvedId(userId) == IF Known(userId) THEN userId ELSE generateUserId

SessionsAfterGet(userId) ==
    IF Known(userId) THEN sessions
    ELSE [u \in DOMAIN sessions \cup {generateUserId} |->
            IF u = generateUserId THEN NewSession ELSE sessions[u]]

KeysAfterGet(userId) ==
    IF Known(userId) THEN userSessions ELSE userSessions \cup {generateUserId}

\* The clients of a run that processes no documents hold more sessions
SessionCap == IF focus = {} THEN MaxAccounts ELSE MaxSessions

CanResolve(userId) ==
    Known(userId) \/ Cardinality(DOMAIN sessions) < SessionCap

\* Mutant: the premium window still counts at the instant it ends
hasPremiumAccessInclusive(session) ==
    session.premiumUntil # NULL /\ now <= session.premiumUntil

hasPremiumAccess(session) ==
    session.premiumUntil # NULL /\ now < session.premiumUntil

----------------------------------------------------------------------------
(* Responses *)

NoUsage == [t \in Tools |-> 0]

NoResp ==
    [route |-> "none", status |-> 0, error |-> "", user |-> NoUserId,
     tool |-> NoTool, convertTo |-> NoFormat, remainingUses |-> NULL,
     isPremium |-> FALSE,
     used |-> 0, usage0 |-> NoUsage,
     code |-> NoCode, orderId |-> NoOrderId, valid |-> FALSE]

\* A response of /api/process-pdf.  isPremium, used and usage0 are history:
\* the premium test and the count read by the handler's checks, and the usage
\* map of the resolved session when the handler started.
PdfResponse(status, error, remaining, r) ==
    [route |-> "process-pdf", status |-> status, error |-> error, user |-> r.user,
     tool |-> r.tool, convertTo |-> r.convertTo, remainingUses |-> remaining,
     isPremium |-> r.isPremium, used |-> r.currentUsage, usage0 |-> r.usage0,
     code |-> NoCode, orderId |-> NoOrderId, valid |-> FALSE]

CodeResponse(status, error, user) ==
    [NoResp EXCEPT !.route = "activate-premium-code", !.status = status,
                   !.error = error, !.user = user]

StatusResponse(user, isPremium) ==
    [NoResp EXCEPT !.route = "user-status", !.status = 200, !.user = user,
                   !.isPremium = isPremium]

----------------------------------------------------------------------------
(* /api/user-status *)

UserStatus(userId) ==
    LET user == ResolvedId(userId)
        session == SessionsAfterGet(userId)[user]
    IN  /\ CanResolve(userId)
        /\ sessions' = SessionsAfterGet(userId)
        /\ userSessions' = KeysAfterGet(userId)
        /\ resp' = StatusResponse(user, hasPremiumAccess(session))
        /\ UNCHANGED <<now, ticks, focus, env, inflight, generatedCodes, activePayments, minted, freeCompleted, outputDir>>

----------------------------------------------------------------------------
(* /api/process-pdf: the checks before the first await *)

Max(a, b) == IF a >= b THEN a ELSE b

HasConfig(tool) == tool \in Tools \cup ObjectPrototypeKeys

InputError(nfiles, tool) ==
    IF nfiles = 0 THEN "No files uploaded"
    ELSE IF tool = NoTool THEN "No tool specified"
    ELSE IF ~HasConfig(tool) THEN "Invalid tool specified"
    ELSE ""

\* session.usage[tool] || 0 (an Object.prototype key reads a function object,
\* which no later step uses as a number)
CurrentUsage(session, tool) == IF tool \in Tools THEN session.usage[tool] ELSE 0

HasFreeLimit(tool) == tool \in Tools /\ toolConfigs[tool].freeLimit # NULL

\* Mutant: the limit is compared with > instead of >=
LimitReachedOffByOne(isPremium, tool, currentUsage) ==
    /\ ~isPremium
    /\ HasFreeLimit(tool)
    /\ currentUsage > toolConfigs[tool].freeLimit

\* Mutant: the limit is applied to premium sessions too
LimitReachedForAll(isPremium, tool, currentUsage) ==
    /\ HasFreeLimit(tool)
    /\ currentUsage >= toolConfigs[tool].freeLimit

LimitReached(isPremium, tool, currentUsage) ==
    /\ ~isPremium
    /\ HasFreeLimit(tool)
    /\ currentUsage >= toolConfigs[tool].freeLimit

\* Mutant: only powerpoint is a premium format
PremiumFormatDeniedPowerpointOnly(isPremium, tool, convertTo) ==
    tool = "convert" /\ ~isPremium /\ convertTo = "powerpoint"

PremiumFormatDenied(isPremium, tool, convertTo) ==
    /\ tool = "convert"
    /\ ~isPremium
    /\ convertTo # NoFormat
    /\ convertTo \in premiumFormats

\* The throws of the switch that happen before any I/O
ThrowsAtOnce(isPremium, tool, convertTo) ==
    \/ tool \notin Tools
    \/ /\ tool = "convert"
       /\ \/ convertTo = NoFormat
          \/ convertTo \notin ConvertFormats
          \/ convertTo \in premiumFormats /\ ~isPremium

\* What the handler answers before it suspends: "" when it goes on to process
Rejection(session, nfiles, tool, convertTo) ==
    LET isPremium == hasPremiumAccess(session)
        currentUsage == CurrentUsage(session, tool)
    IN  IF InputError(nfiles, tool) # "" THEN [status |-> 400, error |-> InputError(nfiles, tool)]
        ELSE IF LimitReached(isPremium, tool, currentUsage)
             THEN [status |-> 403, error |-> "Free limit reached"]
        ELSE IF PremiumFormatDenied(isPremium, tool, convertTo)
             THEN [status |-> 403, error |-> "Premium access required"]
        ELSE IF ThrowsAtOnce(isPremium, tool, convertTo)
             THEN [status |-> 500, error |-> "Processing failed"]
        ELSE [status |-> 0, error |-> ""]

\* Mutant: the check books the use it is about to allow or refuse
SessionAfterChecksCounts(session, tool) ==
    IF HasFreeLimit(tool)
    THEN [session EXCEPT !.usage[tool] = @ + 1]
    ELSE session

\* The session object after the checks of lines 1085-1110, which read
\* session.premiumUntil and session.usage[tool] and assign nothing
SessionAfterChecks(session, tool) == session

\* The locals of a handler: finalUserId, tool, convertTo, isPremium and
\* currentUsage; pc is the await it is suspended at; usage0 is history
Request(user, tool, convertTo, session) ==
    [user |-> user, tool |-> tool, convertTo |-> convertTo, pc |-> "processing",
     isPremium |-> hasPremiumAccess(session),
     currentUsage |-> CurrentUsage(session, tool),
     usage0 |-> session.usage]

ProcessPdf(limit, userId, nfiles, tool, convertTo) ==
    LET user == ResolvedId(userId)
        session == SessionsAfterGet(userId)[user]
        verdict == Rejection(session, nfiles, tool, convertTo)
    IN  /\ CanResolve(userId)
        /\ BagCardinality(inflight) < limit
        /\ sessions' = [SessionsAfterGet(userId) EXCEPT
                            ![user] = SessionAfterChecks(@, tool)]
        /\ userSessions' = KeysAfterGet(userId)
        /\ IF verdict.status = 0
           THEN /\ inflight' = inflight (+)
                              SetToBag({Request(user, tool, convertTo, session)})
                /\ resp' = NoResp
           ELSE /\ inflight' = inflight
                /\ resp' = PdfResponse(verdict.status, verdict.error, NULL,
                                       Request(user, tool, convertTo, session))
        /\ UNCHANGED <<now, ticks, focus, env, generatedCodes, activePayments, minted, freeCompleted, outputDir>>

----------------------------------------------------------------------------
(* /api/process-pdf: after the document operation *)

\* Mutant: every successful operation is counted
UsageAfterSuccessAlways(session, r) ==
    [session EXCEPT !.usage[r.tool] = r.currentUsage + 1]

\* Mutant: the count is incremented in place
UsageAfterSuccessIncrements(session, r) ==
    IF ~r.isPremium /\ HasFreeLimit(r.tool)
    THEN [session EXCEPT !.usage[r.tool] = @ + 1]
    ELSE session

\* if (!isPremium && config.freeLimit !== null) session.usage[tool] = currentUsage + 1
UsageAfterSuccess(session, r) ==
    IF ~r.isPremium /\ HasFreeLimit(r.tool)
    THEN [session EXCEPT !.usage[r.tool] = r.currentUsage + 1]
    ELSE session

\* userSessions.set(finalUserId, session) runs under the same condition
KeysAfterSuccess(r) ==
    IF ~r.isPremium /\ HasFreeLimit(r.tool)
    THEN userSessions \cup {r.user}
    ELSE userSessions

\* Mutant: the operation just counted is subtracted once more
RemainingUsesMinusOne(session, tool) ==
    IF toolConfigs[tool].freeLimit # NULL
    THEN Max(0, toolConfigs[tool].freeLimit - (session.usage[tool] + 1))
    ELSE NULL

RemainingUses(session, tool) ==
    IF toolConfigs[tool].freeLimit # NULL
    THEN Max(0, toolConfigs[tool].freeLimit - session.usage[tool])
    ELSE NULL

\* The document operation (and the I/O it awaits) ends: it throws, or it
\* returns a result; then the usage update runs and the handler suspends
\* again in fs.writeFile.
ProcessingDone(r, ok) ==
    /\ BagIn(r, inflight)
    /\ r.pc = "processing"
    /\ IF ok
       THEN /\ sessions' = [sessions EXCEPT ![r.user] = UsageAfterSuccess(@, r)]
            /\ userSessions' = KeysAfterSuccess(r)
            /\ inflight' = (inflight (-) SetToBag({r}))
                              (+) SetToBag({[r EXCEPT !.pc = "writing"]})
            /\ resp' = NoResp
       ELSE /\ inflight' = inflight (-) SetToBag({r})
            /\ resp' = PdfResponse(500, "Processing failed", NULL, r)
            /\ UNCHANGED <<sessions, userSessions>>
    /\ UNCHANGED <<now, ticks, focus, env, generatedCodes, activePayments, minted, freeCompleted, outputDir>>

\* The runs that do not follow the result files leave outputDir out
ResultUntracked == UNCHANGED outputDir

CountsAsFree(r) == ~r.isPremium /\ HasFreeLimit(r.tool)

\* fs.writeFile ends: it throws (the catch answers 500), or the success
\* response is sent with remainingUses read from the session as it is now.
\* What becomes of outputDir is told by ResultUntracked or by ResultSaved.
WriteDone(r, ok) ==
    /\ BagIn(r, inflight)
    /\ r.pc = "writing"
    /\ inflight' = inflight (-) SetToBag({r})
    /\ IF ok
       THEN /\ resp' = PdfResponse(200, "", RemainingUses(sessions[r.user], r.tool), r)
            /\ freeCompleted' =
                  IF CountsAsFree(r)
                  THEN [freeCompleted EXCEPT ![<<r.user, r.tool>>] = @ + 1]
                  ELSE freeCompleted
       ELSE /\ resp' = PdfResponse(500, "Processing failed", NULL, r)
            /\ UNCHANGED freeCompleted
    /\ UNCHANGED <<now, ticks, focus, env, sessions, userSessions, generatedCodes, activePayments, minted>>

----------------------------------------------------------------------------
(* /api/activate-premium-code *)

\* Mutant: one more code is predefined
validCodesAndNope == {"PREMIUM24H", "TESTCODE123", "LAUNCH2024", "DEMO2024", "NOPE"}

validCodes == {"PREMIUM24H", "TESTCODE123", "LAUNCH2024", "DEMO2024"}

\* The code field of the request: absent, or one of these strings
CodeInputs == {NoCode, "PREMIUM24H", " premium24h ", "NOPE", " nope"}

\* The codes generatePremiumCode returns, in the order it returns them
GeneratedCodeNames == <<"PREMIUM_K1_A", "PREMIUM_K2_B", "PREMIUM_K3_C", "PREMIUM_K4_D">>

\* code.toUpperCase().trim(), on the strings the clients send
codeUpper(code) ==
    CASE code = " premium24h "   -> "PREMIUM24H"
      [] code = " nope"          -> "NOPE"
      [] code = "freepremium"    -> "FREEPREMIUM"
      [] code = "   "            -> ""
      [] code = " premium_k1_a"  -> "PREMIUM_K1_A"
      [] OTHER                   -> code

\* premiumExpiry = new Date(); setHours(getHours() + 24)
PremiumExpiry == now + PremiumDays

\* Mutant: a grant starts the session's free uses afresh
GrantPremiumResetsUsage(session) ==
    [session EXCEPT !.premiumUntil = PremiumExpiry, !.usage = NoUsage]

\* Mutant: a grant to a premium session extends its window
GrantPremiumAdditive(session) ==
    [session EXCEPT !.premiumUntil =
        IF @ # NULL /\ now < @ THEN @ + PremiumDays ELSE PremiumExpiry]

\* session.premiumUntil = premiumExpiry
GrantPremium(session) == [session EXCEPT !.premiumUntil = PremiumExpiry]

\* Mutant: a generated code is deleted when it is redeemed
CodesAfterActivationConsumes(user, codeKey) ==
    [c \in DOMAIN generatedCodes \ {codeKey} |-> generatedCodes[c]]

\* if (isGeneratedCode) { codeData.activatedBy = ...; codeData.used = true }
CodesAfterActivation(user, codeKey) ==
    IF codeKey \in DOMAIN generatedCodes
    THEN [generatedCodes EXCEPT ![codeKey] =
            [@ EXCEPT !.activatedBy = user, !.activatedAt = now, !.used = TRUE]]
    ELSE generatedCodes

ActivatePremiumCode(userId, code) ==
    LET user == ResolvedId(userId)
        isGeneratedCode == codeUpper(code) \in DOMAIN generatedCodes
        isValidPredefinedCode == codeUpper(code) \in validCodes
    IN  /\ CanResolve(userId)
        /\ IF code = NoCode
           THEN \* code.toUpperCase() throws, after getUserSession has run
                /\ sessions' = SessionsAfterGet(userId)
                /\ userSessions' = KeysAfterGet(userId)
                /\ generatedCodes' = generatedCodes
                /\ resp' = CodeResponse(500, "Code activation failed", user)
           ELSE IF isValidPredefinedCode \/ isGeneratedCode
           THEN /\ sessions' = [SessionsAfterGet(userId) EXCEPT
                                   ![user] = GrantPremium(@)]
                /\ userSessions' = KeysAfterGet(userId) \cup {user}
                /\ generatedCodes' = CodesAfterActivation(user, codeUpper(code))
                /\ resp' = [CodeResponse(200, "", user) EXCEPT !.code = codeUpper(code)]
           ELSE /\ sessions' = SessionsAfterGet(userId)
                /\ userSessions' = KeysAfterGet(userId)
                /\ generatedCodes' = generatedCodes
                /\ resp' = [CodeResponse(400, "Invalid premium code", user)
                               EXCEPT !.code = codeUpper(code)]
        /\ UNCHANGED <<now, ticks, focus, env, inflight, activePayments, minted, freeCompleted, outputDir>>

----------------------------------------------------------------------------
(* /api/create-paypal-order and /api/capture-paypal-payment *)

\* `ORDER_${Date.now()}_${random}`: a number never used before
generateOrderId == minted.orders + 1
StrangerOrderId == MaxOrders + 1    \* an order id the server never minted

NewPayment(user) ==
    [userId |-> user, amount |-> "2.00", status |-> "pending", createdAt |-> now]

OrderResponse(user, orderId) ==
    [NoResp EXCEPT !.route = "create-paypal-order", !.status = 200,
                   !.user = user, !.orderId = orderId]

CreatePaypalOrder(userId) ==
    LET user == ResolvedId(userId)
        orderId == generateOrderId
    IN  /\ CanResolve(userId)
        /\ minted.orders < MaxOrders
        /\ sessions' = SessionsAfterGet(userId)
        /\ userSessions' = KeysAfterGet(userId)
        /\ activePayments' =
              [o \in DOMAIN activePayments \cup {orderId} |->
                  IF o = orderId THEN NewPayment(user) ELSE activePayments[o]]
        /\ minted' = [minted EXCEPT !.orders = @ + 1]
        /\ resp' = OrderResponse(user, orderId)
        /\ UNCHANGED <<now, ticks, focus, env, inflight, generatedCodes, freeCompleted, outputDir>>

\* The fields of the body of a capture request
NoStatus == "undefined"
NoAmount == "undefined"
NoPayerId == "undefined"
StatusInputs == {NoStatus, "COMPLETED", "PENDING", "completed"}
AmountInputs == {NoAmount, "2.00", "1.99", "2.00 ", "2"}
PayerIdInputs == {"PAYER_A"}
OrderIdInputs == {StrangerOrderId} \cup (1..minted.orders)

\* paymentDetails?.status !== 'COMPLETED'
PaymentCompleted(status) == status = "COMPLETED"

\* Mutant: the amount is compared after trimming
AmountOkTrimmed(amount) == amount \in {"2.00", "2.00 "}

\* paymentAmount !== '2.00'
AmountOk(amount) == amount = "2.00"

\* Mutant: the same code is returned every time
generatePremiumCodeAgain == GeneratedCodeNames[1]

\* generatePremiumCode(): a code never returned before
generatePremiumCode == GeneratedCodeNames[minted.codes + 1]

\* Mutant: a code starts unused
NewCodeUnused(user, orderId, payerId) ==
    [userId |-> user, createdAt |-> now, used |-> FALSE,
     paypalOrderId |-> orderId, paypalPayerId |-> payerId,
     activatedBy |-> NoUserId, activatedAt |-> NULL, reused |-> FALSE]

\* The entry of a generated code; activatedBy, activatedAt and reused are
\* absent until an activation sets them
NewCode(user, orderId, payerId) ==
    [userId |-> user, createdAt |-> now, used |-> TRUE,
     paypalOrderId |-> orderId, paypalPayerId |-> payerId,
     activatedBy |-> NoUserId, activatedAt |-> NULL, reused |-> FALSE]

CaptureResponse(status, error, user, code, orderId) ==
    [NoResp EXCEPT !.route = "capture-paypal-payment", !.status = status,
                   !.error = error, !.user = user, !.code = code,
                   !.orderId = orderId]

CapturePaypalPayment(userId, orderId, payerId, status, amount) ==
    LET user == ResolvedId(userId)
        premiumCode == generatePremiumCode
    IN  /\ IF ~PaymentCompleted(status)
           THEN /\ resp' = CaptureResponse(400, "Payment not completed",
                                           NoUserId, NoCode, NoOrderId)
                /\ UNCHANGED <<sessions, userSessions, generatedCodes, minted>>
           ELSE IF ~AmountOk(amount)
           THEN /\ resp' = CaptureResponse(400, "Invalid payment amount",
                                           NoUserId, NoCode, NoOrderId)
                /\ UNCHANGED <<sessions, userSessions, generatedCodes, minted>>
           ELSE /\ CanResolve(userId)
                /\ minted.codes < MaxCodes
                /\ sessions' = [SessionsAfterGet(userId) EXCEPT
                                   ![user] = GrantPremium(@)]
                /\ userSessions' = KeysAfterGet(userId) \cup {user}
                /\ generatedCodes' =
                      [c \in DOMAIN generatedCodes \cup {premiumCode} |->
                          IF c = premiumCode THEN NewCode(user, orderId, payerId)
                          ELSE generatedCodes[c]]
                /\ minted' = [minted EXCEPT !.codes = @ + 1]
                /\ resp' = CaptureResponse(200, "", user, premiumCode, orderId)
        /\ UNCHANGED <<now, ticks, focus, env, inflight, activePayments, freeCompleted, outputDir>>

----------------------------------------------------------------------------
(* /api/activate-premium-code and /api/validate-premium-code of part_000 *)

\* validCodes of the activation handler
validCodesEnhanced ==
    {"PREMIUM24H", "TESTCODE123", "LAUNCH2024", "DEMO2024", "FREEPREMIUM"}

\* Mutant: the validation handler has the shorter list
validCodesOfValidateShort == {"PREMIUM24H", "TESTCODE123", "LAUNCH2024", "DEMO2024"}

\* validCodes of the validation handler
validCodesOfValidate ==
    {"PREMIUM24H", "TESTCODE123", "LAUNCH2024", "DEMO2024", "FREEPREMIUM"}

\* !code
CodeMissing(code) == code = NoCode \/ code = ""

\* !code || !code.trim()
CodeBlank(code) == CodeMissing(code) \/ codeUpper(code) = ""

\* what the activation handler accepts
ActivationAccepts(code) ==
    /\ ~CodeBlank(code)
    /\ \/ codeUpper(code) \in validCodesEnhanced
       \/ codeUpper(code) \in DOMAIN generatedCodes

\* codeData.reused = codeData.used, before used is set
CodesAfterActivationEnhanced(user, codeKey) ==
    IF codeKey \in DOMAIN generatedCodes
    THEN [generatedCodes EXCEPT ![codeKey] =
            [@ EXCEPT !.activatedBy = user, !.activatedAt = now,
                      !.reused = generatedCodes[codeKey].used, !.used = TRUE]]
    ELSE generatedCodes

ActivatePremiumCodeEnhanced(userId, code) ==
    LET user == ResolvedId(userId)
    IN  /\ CanResolve(userId)
        /\ IF CodeBlank(code)
           THEN /\ sessions' = SessionsAfterGet(userId)
                /\ userSessions' = KeysAfterGet(userId)
                /\ generatedCodes' = generatedCodes
                /\ resp' = CodeResponse(400, "Premium code is required", user)
           ELSE IF ActivationAccepts(code)
           THEN /\ sessions' = [SessionsAfterGet(userId) EXCEPT
                                   ![user] = GrantPremium(@)]
                /\ userSessions' = KeysAfterGet(userId) \cup {user}
                /\ generatedCodes' = CodesAfterActivationEnhanced(user, codeUpper(code))
                /\ resp' = [CodeResponse(200, "", user) EXCEPT !.code = codeUpper(code)]
           ELSE /\ sessions' = SessionsAfterGet(userId)
                /\ userSessions' = KeysAfterGet(userId)
                /\ generatedCodes' = generatedCodes
                /\ resp' = [CodeResponse(400, "Invalid premium code", user)
                               EXCEPT !.code = codeUpper(code)]
        /\ UNCHANGED <<now, ticks, focus, env, inflight, activePayments, minted, freeCompleted, outputDir>>

\* what the validation handler reports as valid
ValidationAccepts(code) ==
    /\ ~CodeMissing(code)
    /\ \/ codeUpper(code) \in validCodesOfValidate
       \/ codeUpper(code) \in DOMAIN generatedCodes

ValidateResponse(valid, reason, code) ==
    [NoResp EXCEPT !.route = "validate-premium-code", !.status = 200,
                   !.valid = valid, !.error = reason, !.code = code]

ValidatePremiumCode(code) ==
    /\ resp' = IF CodeMissing(code)
               THEN ValidateResponse(FALSE, "No code provided", NoCode)
               ELSE IF ValidationAccepts(code)
               THEN ValidateResponse(TRUE, "", codeUpper(code))
               ELSE ValidateResponse(FALSE, "Code not found", codeUpper(code))
    /\ UNCHANGED <<now, ticks, focus, env, sessions, userSessions, inflight,
                   generatedCodes, activePayments, minted, freeCompleted, outputDir>>

----------------------------------------------------------------------------
(* The clock and the hourly cleanup *)

\* The clock is seen to advance by a premium window, or by a day more than
\* the session retention period
TickSteps == {PremiumDays, SessionRetentionDays + 1}

Tick(days) ==
    /\ ticks < MaxTicks
    /\ ticks' = ticks + 1
    /\ now' = now + days
    /\ resp' = NoResp
    /\ UNCHANGED <<focus, env, sessions, userSessions, inflight, generatedCodes, activePayments, minted, freeCompleted, outputDir>>

\* Mutant: a session is deleted once it is exactly seven days old
SessionExpiredInclusive(session) == now - session.createdAt >= SessionRetentionDays

SessionExpired(session) == now - session.createdAt > SessionRetentionDays
PaymentExpired(payment) == now - payment.createdAt > PaymentRetentionDays
CodeExpired(data) == now - data.createdAt > CodeRetentionDays

PaymentsAfterCleanup ==
    [o \in {k \in DOMAIN activePayments : ~PaymentExpired(activePayments[k])} |->
        activePayments[o]]

CodesAfterCleanup ==
    [c \in {k \in DOMAIN generatedCodes : ~CodeExpired(generatedCodes[k])} |->
        generatedCodes[c]]

Cleanup ==
    /\ userSessions' = {u \in userSessions : ~SessionExpired(sessions[u])}
    /\ activePayments' = PaymentsAfterCleanup
    /\ generatedCodes' = CodesAfterCleanup
    /\ resp' = NoResp
    /\ UNCHANGED <<now, ticks, focus, env, sessions, inflight, minted, freeCompleted, outputDir>>

\* The cleanup of the variant in src/unnamed/part_001, which also clears the
\* premiumUntil of a stored session once it lies in the past
PremiumLapsed(session) == session.premiumUntil # NULL /\ now > session.premiumUntil

CleanupEnhanced ==
    /\ sessions' = [u \in DOMAIN sessions |->
                      IF u \in userSessions /\ PremiumLapsed(sessions[u])
                      THEN [sessions[u] EXCEPT !.premiumUntil = NULL]
                      ELSE sessions[u]]
    /\ userSessions' = {u \in userSessions : ~SessionExpired(sessions[u])}
    /\ activePayments' = PaymentsAfterCleanup
    /\ generatedCodes' = CodesAfterCleanup
    /\ resp' = NoResp
    /\ UNCHANGED <<now, ticks, focus, env, inflight, minted, freeCompleted, outputDir>>

----------------------------------------------------------------------------
(* /api/process-pdf of part_000 (older variant): the client states in the   *)
(* hasPremium field of the body whether it is premium, and the free limit   *)
(* bounds the number of files of one request                                *)

olderToolConfigs ==
    [t \in Tools |->
        CASE t = "merge"    -> [requiresPremium |-> FALSE, freeLimit |-> 5]
          [] t = "compress" -> [requiresPremium |-> FALSE, freeLimit |-> 1]
          [] t = "split"    -> [requiresPremium |-> FALSE, freeLimit |-> 1]
          [] t = "edit"     -> [requiresPremium |-> TRUE,  freeLimit |-> 0]
          [] t = "repair"   -> [requiresPremium |-> FALSE, freeLimit |-> 1]
          [] t = "convert"  -> [requiresPremium |-> FALSE, freeLimit |-> 2]]

NoFlag == "undefined"
HasPremiumInputs == {NoFlag, "true", "false"}
SplitMethodInputs == {"all_pages", "page_ranges", "equal_parts"}
OlderFileCounts == 0..MaxFiles

\* const isPremium = hasPremium === 'true'
ClaimsPremium(hasPremium) == hasPremium = "true"

\* Mutant: the requiresPremium mark of a tool is not looked at
RequiresPremiumDeniedNever(isPremium, tool) == FALSE

\* config.requiresPremium && !isPremium
RequiresPremiumDenied(isPremium, tool) ==
    olderToolConfigs[tool].requiresPremium /\ ~isPremium

\* !isPremium && config.freeLimit > 0 && files.length > config.freeLimit
TooManyFiles(isPremium, tool, nfiles) ==
    /\ ~isPremium
    /\ olderToolConfigs[tool].freeLimit > 0
    /\ nfiles > olderToolConfigs[tool].freeLimit

AdvancedSplitDenied(isPremium, tool, splitMethod) ==
    /\ tool = "split"
    /\ ~isPremium
    /\ splitMethod \in {"page_ranges", "equal_parts"}

OlderRejection(nfiles, tool, isPremium, splitMethod) ==
    CASE nfiles = 0 -> [status |-> 400, error |-> "No files uploaded"]
      [] nfiles # 0 /\ tool = NoTool -> [status |-> 400, error |-> "No tool specified"]
      [] nfiles # 0 /\ tool # NoTool /\ ~HasConfig(tool) ->
            [status |-> 400, error |-> "Invalid tool specified"]
      [] nfiles # 0 /\ tool \in ObjectPrototypeKeys ->
            \* config is a function: no mark, no limit, no case of the switch
            [status |-> 500, error |-> "Processing failed"]
      [] nfiles # 0 /\ tool \in Tools /\ RequiresPremiumDenied(isPremium, tool) ->
            [status |-> 403, error |-> "Premium access required for this tool"]
      [] nfiles # 0 /\ tool \in Tools /\ ~RequiresPremiumDenied(isPremium, tool)
           /\ TooManyFiles(isPremium, tool, nfiles) ->
            [status |-> 403, error |-> "Free version allows maximum files"]
      [] nfiles # 0 /\ tool \in Tools /\ ~RequiresPremiumDenied(isPremium, tool)
           /\ ~TooManyFiles(isPremium, tool, nfiles)
           /\ AdvancedSplitDenied(isPremium, tool, splitMethod) ->
            [status |-> 403, error |-> "Advanced split options require premium access"]
      [] nfiles # 0 /\ tool = "edit" /\ ~RequiresPremiumDenied(isPremium, tool) ->
            \* the switch has no case for edit
            [status |-> 500, error |-> "Processing failed"]
      [] OTHER -> [status |-> 0, error |-> ""]

OlderRequest(tool, isPremium) ==
    [variant |-> "part_000", tool |-> tool, isPremium |-> isPremium]

OlderResponse(status, error, r) ==
    [NoResp EXCEPT !.route = "process-pdf (part_000)", !.status = status,
                   !.error = error, !.tool = r.tool, !.isPremium = r.isPremium]

ProcessPdfOlder(nfiles, tool, hasPremium, splitMethod) ==
    LET isPremium == ClaimsPremium(hasPremium)
        verdict == OlderRejection(nfiles, tool, isPremium, splitMethod)
        r == OlderRequest(tool, isPremium)
    IN  /\ BagCardinality(inflight) < MaxInFlight
        /\ IF verdict.status = 0
           THEN /\ inflight' = inflight (+) SetToBag({r})
                /\ resp' = NoResp
           ELSE /\ inflight' = inflight
                /\ resp' = OlderResponse(verdict.status, verdict.error, r)
        /\ UNCHANGED <<now, ticks, focus, env, sessions, userSessions, generatedCodes,
                       activePayments, minted, freeCompleted, outputDir>>

\* The operation and the write of its result end, well or with an exception
OlderDone(r, ok) ==
    /\ r \in BagToSet(inflight)
    /\ inflight' = inflight (-) SetToBag({r})
    /\ resp' = IF ok THEN OlderResponse(200, "", r)
               ELSE OlderResponse(500, "Processing failed", r)
    /\ UNCHANGED <<now, ticks, focus, env, sessions, userSessions, generatedCodes,
                   activePayments, minted, freeCompleted, outputDir>>

----------------------------------------------------------------------------
(* Specifications *)

\* The state after start-up; the clients of one run all use the same tool
InitIn(tools, environment) ==
    /\ env = environment
    /\ now = 0
    /\ ticks = 0
    /\ focus = tools
    /\ sessions = <<>>
    /\ userSessions = {}
    /\ inflight = EmptyBag
    /\ generatedCodes = <<>>
    /\ activePayments = <<>>
    /\ minted = [codes |-> 0, orders |-> 0]
    /\ resp = NoResp
    /\ freeCompleted = [p \in (1..MaxSessions) \X FiniteTools |-> 0]
    /\ outputDir = <<>>

\* The server runs in production with an admin token set
ProductionEnv == [NODE_ENV |-> "production", ADMIN_TOKEN |-> "s3cret"]

InitWith(tools) == InitIn(tools, ProductionEnv)

Requests(limit) ==
    \/ \E userId \in UserIdInputs, nfiles \in FileCounts :
         \E tool \in ToolInputs(nfiles) : \E convertTo \in FormatInputs(tool) :
            ProcessPdf(limit, userId, nfiles, tool, convertTo)
    \/ \E r \in BagToSet(inflight), ok \in BOOLEAN : ProcessingDone(r, ok)
    \/ \E r \in BagToSet(inflight), ok \in BOOLEAN :
          WriteDone(r, ok) /\ ResultUntracked
    \/ \E userId \in UserIdInputs, code \in CodeInputs :
            ActivatePremiumCode(userId, code)
    \/ \E userId \in UserIdInputs : UserStatus(userId)
    \/ \E days \in TickSteps : Tick(days)

\* Requests overlap: up to MaxInFlight handlers are suspended at an await
Init == \E t \in Tools : InitWith({t})
Next == Requests(MaxInFlight) \/ Cleanup
Spec == Init /\ [][Next]_vars

\* Requests are handled one at a time
NextSeq == Requests(1) \/ Cleanup
SpecSeq == Init /\ [][NextSeq]_vars

\* Requests are handled one at a time, with the cleanup of part_001
NextSeqEnhanced == Requests(1) \/ CleanupEnhanced
SpecSeqEnhanced == Init /\ [][NextSeqEnhanced]_vars

\* The account routes of server.js, in runs that process no documents
AccountCodeInputs ==
    CodeInputs \cup DOMAIN generatedCodes \cup {" premium_k1_a", "   "}

\* The other fields of a capture request vary only with the right status
\* and amount
Captures ==
    \/ \E status \in StatusInputs \ {"COMPLETED"} :
          CapturePaypalPayment(NoUserId, NoOrderId, NoPayerId, status, NoAmount)
    \/ \E amount \in AmountInputs :
          \E userId \in (IF amount = "2.00" THEN UserIdInputs ELSE {NoUserId}),
             orderId \in (IF amount = "2.00" THEN OrderIdInputs ELSE {NoOrderId}),
             payerId \in (IF amount = "2.00" THEN PayerIdInputs ELSE {NoPayerId}) :
             CapturePaypalPayment(userId, orderId, payerId, "COMPLETED", amount)

Payments ==
    \/ \E userId \in UserIdInputs : CreatePaypalOrder(userId)
    \/ Captures

InitAccounts == InitWith({})
NextAccounts ==
    \/ \E userId \in UserIdInputs : UserStatus(userId)
    \/ \E userId \in UserIdInputs, code \in AccountCodeInputs :
            ActivatePremiumCode(userId, code)
    \/ Payments
    \/ \E days \in TickSteps : Tick(days)
    \/ Cleanup
SpecAccounts == InitAccounts /\ [][NextAccounts]_vars

\* The code routes of part_000, with the captures that generate codes
EnhancedCodeInputs == AccountCodeInputs \cup {"", "FREEPREMIUM", "freepremium"}

NextCodesEnhanced ==
    \/ \E userId \in UserIdInputs, code \in EnhancedCodeInputs :
            ActivatePremiumCodeEnhanced(userId, code)
    \/ \E code \in EnhancedCodeInputs : ValidatePremiumCode(code)
    \/ Captures
    \/ \E days \in TickSteps : Tick(days)
    \/ Cleanup
SpecCodesEnhanced == InitAccounts /\ [][NextCodesEnhanced]_vars

\* The older process-pdf of part_000, which keeps no sessions
NextOlder ==
    \/ \E nfiles \in OlderFileCounts :
         \E tool \in (IF nfiles = 0 THEN {NoTool} ELSE Tools \cup BadTools) :
         \E hasPremium \in (IF tool \in Tools THEN HasPremiumInputs ELSE {NoFlag}) :
         \E splitMethod \in (IF tool = "split" THEN SplitMethodInputs ELSE {"all_pages"}) :
            ProcessPdfOlder(nfiles, tool, hasPremium, splitMethod)
    \/ \E r \in BagToSet(inflight), ok \in BOOLEAN : OlderDone(r, ok)
SpecOlder == InitWith(Tools) /\ [][NextOlder]_vars

----------------------------------------------------------------------------
(* Claims *)

FreeLimit(t) == toolConfigs[t].freeLimit
LimitAnswer == resp.status = 403 /\ resp.error = "Free limit reached"
PdfAnswer == resp.route = "process-pdf"
\* a process-pdf answer to a request that came with files, for user u and tool t
PdfAnswerFor(u, t) ==
    PdfAnswer /\ resp.user = u /\ resp.tool = t /\ resp.error # "No files uploaded"
InFlightFor(u, t) == \E r \in BagToSet(inflight) : r.user = u /\ r.tool = t
NeverPremium(u) == sessions[u].premiumUntil = NULL

\* C1: requests handled one at a time, session never premium, tool with a
\* finite free limit C: once C operations have succeeded, there are never
\* more than C successes, every further request for the tool (sent with
\* files) is answered 403 'Free limit reached', and none is admitted to
\* processing as long as premium has not been granted to the session.
C1_LimitHoldsOneAtATime ==
    \A u \in DOMAIN sessions, t \in FiniteTools :
        (NeverPremium(u) /\ freeCompleted[<<u, t>>] >= FreeLimit(t)) =>
            /\ freeCompleted[<<u, t>>] = FreeLimit(t)
            /\ ~InFlightFor(u, t)
            /\ PdfAnswerFor(u, t) =>
                  \/ LimitAnswer
                  \/ resp.status = 200 /\ resp.used = FreeLimit(t) - 1

C1_Witness ==
    \E u \in DOMAIN sessions :
        /\ NeverPremium(u)
        /\ freeCompleted[<<u, "split">>] = 5
        /\ PdfAnswerFor(u, "split")
        /\ LimitAnswer

\* C2: a process-pdf request answered with an error (400, 403 or 500) leaves
\* the usage counters of its session as they were when the request started.
C2_ErrorKeepsUsage ==
    (PdfAnswer /\ resp.status \in {400, 403, 500}) =>
        sessions[resp.user].usage = resp.usage0

Lapsed(session) == session.premiumUntil # NULL /\ now >= session.premiumUntil

\* C3: no step that grants premium or lets time pass changes a usage counter
\* of an existing session, and a request whose check finds the session not
\* premium (in particular after the premium window has lapsed) and its count
\* for a finite-limit tool at the limit is answered 403 'Free limit reached'.
C3_LapsedPremiumKeepsUsage ==
    [][ /\ \A u \in DOMAIN sessions :
              (sessions'[u].premiumUntil # sessions[u].premiumUntil \/ now' # now)
                  => sessions'[u].usage = sessions[u].usage
        /\ \A t \in FiniteTools :
              ( /\ resp'.route = "process-pdf"
                /\ resp'.tool = t
                /\ resp'.error # "No files uploaded"
                /\ ~resp'.isPremium
                /\ resp'.usage0[t] >= FreeLimit(t) )
                  => (resp'.status = 403 /\ resp'.error = "Free limit reached")
      ]_vars

C3_Witness ==
    \E u \in DOMAIN sessions, t \in FiniteTools :
        /\ Lapsed(sessions[u])
        /\ sessions[u].usage[t] >= FreeLimit(t)
        /\ PdfAnswerFor(u, t)
        /\ LimitAnswer

\* C4: a process-pdf request of a session that is premium is never answered
\* 403 (neither 'Free limit reached' nor 'Premium access required').
C4_PremiumNeverRefused ==
    (PdfAnswer /\ resp.status = 403) =>
        ~( /\ sessions[resp.user].premiumUntil # NULL
           /\ now < sessions[resp.user].premiumUntil )

C4_Witness ==
    \E r \in BagToSet(inflight) :
        /\ r.isPremium
        /\ now < sessions[r.user].premiumUntil
        /\ \/ r.tool \in FiniteTools /\ sessions[r.user].usage[r.tool] >= FreeLimit(r.tool)
           \/ r.tool = "convert" /\ r.convertTo \in premiumFormats

\* C5: /api/user-status reports isPremium exactly when premiumUntil is not
\* null and the clock is strictly before it.
C5_PremiumIffBeforeExpiry ==
    resp.route = "user-status" =>
        (resp.isPremium <=>
            ( /\ sessions[resp.user].premiumUntil # NULL
              /\ now < sessions[resp.user].premiumUntil ))

C5_Witness ==
    /\ resp.route = "user-status"
    /\ sessions[resp.user].premiumUntil = now
    /\ ~resp.isPremium

\* C6: a step in which process-pdf rejects a request with 400 or 403 leaves
\* every existing session object as it was; a session the request created is
\* left as created (all counters 0, premiumUntil null).
C6_RejectionLeavesSession ==
    [][ (resp'.route = "process-pdf" /\ resp'.status \in {400, 403}) =>
            /\ \A u \in DOMAIN sessions : sessions'[u] = sessions[u]
            /\ resp'.user \notin DOMAIN sessions =>
                  /\ sessions'[resp'.user].usage = NoUsage
                  /\ sessions'[resp'.user].premiumUntil = NULL
      ]_vars

C6_Witness ==
    /\ PdfAnswer
    /\ LimitAnswer
    /\ sessions[resp.user].usage[resp.tool] = FreeLimit(resp.tool)
    /\ sessions[resp.user].premiumUntil # NULL

\* C7: with overlapping requests, every free-tier request that is admitted or
\* answered with success has read a count below the limit in its own check;
\* the check is passed with a stale count, not bypassed.  (The witness is a
\* never-premium session with more successes than the limit.)
C7_AdmittedBelowLimit ==
    /\ \A r \in BagToSet(inflight) :
          (~r.isPremium /\ HasFreeLimit(r.tool)) => r.currentUsage < FreeLimit(r.tool)
    /\ (PdfAnswer /\ resp.status = 200 /\ ~resp.isPremium /\ HasFreeLimit(resp.tool))
          => resp.used < FreeLimit(resp.tool)

C7_Witness ==
    \E u \in DOMAIN sessions, t \in FiniteTools :
        /\ NeverPremium(u)
        /\ freeCompleted[<<u, t>>] > FreeLimit(t)
        /\ PdfAnswerFor(u, t)
        /\ resp.status = 200
        /\ resp.used = FreeLimit(t) - 1

\* C8: no step decreases the usage count of a session that is in the store.
C8_UsageNeverDecreases ==
    [][ \A u \in userSessions \cap userSessions' : \A t \in Tools :
            sessions'[u].usage[t] >= sessions[u].usage[t] ]_vars

OperationSucceeds(r) ==
    /\ r.pc = "processing"
    /\ inflight' = (inflight (-) SetToBag({r})) (+) SetToBag({[r EXCEPT !.pc = "writing"]})

C12_PremiumFormatsRefused ==
    /\ \A r \in BagToSet(inflight) :
          (r.tool = "convert" /\ r.convertTo \in premiumFormats) => r.isPremium
    /\ (PdfAnswer /\ resp.tool = "convert" /\ resp.error # "No files uploaded") =>
          /\ ~LimitAnswer
          /\ (resp.status = 403 /\ resp.error = "Premium access required")
                <=> (~resp.isPremium /\ resp.convertTo \in {"powerpoint", "images"})

C12_Witness ==
    /\ PdfAnswer
    /\ resp.tool = "convert"
    /\ resp.convertTo = "images"
    /\ ~resp.isPremium
    /\ resp.status = 403
    /\ resp.error = "Premium access required"

\* C13: /api/user-status does nothing but getUserSession.  For an identifier
\* that is in the store it answers for that identifier and changes neither
\* the store nor any session; for an absent or unknown identifier it adds
\* exactly one session under a userId never used before (not the identifier
\* the caller sent), with all six counters 0, premiumUntil null and
\* createdAt = now, and leaves the other sessions as they were.
C13_GetUserSession ==
    [][ \A userId \in UserIdInputs :
          UserStatus(userId) =>
            IF userId # NoUserId /\ userId \in userSessions
            THEN /\ resp'.user = userId
                 /\ sessions' = sessions
                 /\ userSessions' = userSessions
            ELSE /\ resp'.user \notin DOMAIN sessions \cup {userId, NoUserId}
                 /\ userSessions' = userSessions \cup {resp'.user}
                 /\ DOMAIN sessions' = DOMAIN sessions \cup {resp'.user}
                 /\ \A u \in DOMAIN sessions : sessions'[u] = sessions[u]
                 /\ sessions'[resp'.user] =
                       [usage |-> [t \in {"merge", "compress", "split", "edit",
                                          "repair", "convert"} |-> 0],
                        premiumUntil |-> NULL, createdAt |-> now]
      ]_vars

\* a second session has been created for a caller whose identifier had been
\* deleted from the store
C13_Witness ==
    /\ resp.route = "user-status"
    /\ resp.user = 2
    /\ 1 \notin userSessions
    /\ sessions[2].premiumUntil = NULL
    /\ sessions[2].createdAt = now

GrantAnswer ==
    /\ resp.route \in {"activate-premium-code", "capture-paypal-payment"}
    /\ resp.status = 200

\* C14: every step that answers a code activation or a payment capture with
\* success leaves premiumUntil of the answered session at now + 24 hours,
\* whatever it was before, and puts the session in the store.
C14_GrantSetsWindowFromNow ==
    [][ (resp'.route \in {"activate-premium-code", "capture-paypal-payment"}
           /\ resp'.status = 200) =>
            /\ sessions'[resp'.user].premiumUntil = now + PremiumDays
            /\ resp'.user \in userSessions'
      ]_vars

\* a session that a capture has made premium until now + 24 hours activates
\* a code at the same instant: its window still ends at now + 24 hours
C14_Witness ==
    /\ resp.route = "activate-premium-code"
    /\ resp.status = 200
    /\ \E c \in DOMAIN generatedCodes :
          /\ generatedCodes[c].userId = resp.user
          /\ generatedCodes[c].createdAt = now
    /\ sessions[resp.user].premiumUntil = now + PremiumDays

\* C15: an activation whose code, trimmed and upper-cased, is a predefined
\* code or a key of the generated-code table is answered with success and
\* leaves the session premium, whoever redeemed the code before and whether
\* or not it is marked used; no activation removes a key of the table.
C15_CodesAreMultiRedeemable ==
    [][ resp'.route = "activate-premium-code" =>
            /\ DOMAIN generatedCodes' = DOMAIN generatedCodes
            /\ (resp'.code \in {"PREMIUM24H", "TESTCODE123", "LAUNCH2024", "DEMO2024"}
                                  \cup DOMAIN generatedCodes) =>
                  /\ resp'.status = 200
                  /\ resp'.user \in userSessions'
                  /\ sessions'[resp'.user].premiumUntil # NULL
                  /\ now' < sessions'[resp'.user].premiumUntil
      ]_vars

\* two sessions are premium and no code has been generated: both have
\* redeemed the predefined code, the second one just now
C15_Witness ==
    /\ resp.route = "activate-premium-code"
    /\ resp.status = 200
    /\ resp.code = "PREMIUM24H"
    /\ minted.codes = 0
    /\ \E u \in DOMAIN sessions :
          /\ u # resp.user
          /\ sessions[u].premiumUntil # NULL
          /\ now < sessions[u].premiumUntil
    /\ now < sessions[resp.user].premiumUntil

\* C16: an activation whose code, trimmed and upper-cased, is neither a
\* predefined code nor a key of the generated-code table is answered 400
\* 'Invalid premium code'; it leaves the table and every existing session as
\* they were, and a session it created is not premium.
C16_InvalidCodeGrantsNothing ==
    [][ ( /\ resp'.route = "activate-premium-code"
          /\ resp'.code # NoCode
          /\ resp'.code \notin {"PREMIUM24H", "TESTCODE123", "LAUNCH2024", "DEMO2024"}
                                   \cup DOMAIN generatedCodes ) =>
            /\ resp'.status = 400
            /\ resp'.error = "Invalid premium code"
            /\ generatedCodes' = generatedCodes
            /\ \A u \in DOMAIN sessions : sessions'[u] = sessions[u]
            /\ \A u \in DOMAIN sessions' \ DOMAIN sessions :
                  sessions'[u].premiumUntil = NULL
      ]_vars

C16_Witness ==
    /\ resp.route = "activate-premium-code"
    /\ resp.status = 400
    /\ resp.code = "NOPE"
    /\ sessions[resp.user].premiumUntil = NULL
    /\ DOMAIN generatedCodes # {}

\* C17: (part_000) a validation changes no session, no entry of the code
\* table and no payment, and reports valid = true exactly for the codes that
\* an activation in the same state accepts; conversely an activation
\* succeeds exactly for the codes a validation in the same state reports
\* valid.
C17_ValidateAgreesAndChangesNothing ==
    [][ /\ resp'.route = "validate-premium-code" =>
              /\ sessions' = sessions
              /\ userSessions' = userSessions
              /\ generatedCodes' = generatedCodes
              /\ activePayments' = activePayments
              /\ \A code \in EnhancedCodeInputs :
                    ValidatePremiumCode(code) =>
                        (resp'.valid <=> ActivationAccepts(code))
        /\ resp'.route = "activate-premium-code" =>
              \A code \in EnhancedCodeInputs, userId \in UserIdInputs :
                  ActivatePremiumCodeEnhanced(userId, code) =>
                      (resp'.status = 200 <=> ValidationAccepts(code))
      ]_vars

\* a generated code, marked used, has been reported valid
C17_Witness ==
    /\ resp.route = "validate-premium-code"
    /\ resp.valid
    /\ resp.code \in DOMAIN generatedCodes
    /\ generatedCodes[resp.code].used
    /\ generatedCodes[resp.code].activatedBy = NoUserId

\* C18: a capture whose payment status is not 'COMPLETED' is answered 400
\* 'Payment not completed', and one with status 'COMPLETED' whose amount is
\* not the string '2.00' is answered 400 'Invalid payment amount'; either
\* way the sessions, the store, the code table and the payments are left as
\* they were.
C18_BadPaymentRejected ==
    [][ resp'.route = "capture-paypal-payment" =>
          /\ \A status \in StatusInputs \ {"COMPLETED"} :
                CapturePaypalPayment(NoUserId, NoOrderId, NoPayerId, status, NoAmount)
                  => (resp'.status = 400 /\ resp'.error = "Payment not completed")
          /\ \A amount \in AmountInputs \ {"2.00"} :
                CapturePaypalPayment(NoUserId, NoOrderId, NoPayerId, "COMPLETED", amount)
                  => (resp'.status = 400 /\ resp'.error = "Invalid payment amount")
          /\ resp'.status = 400 =>
                /\ sessions' = sessions
                /\ userSessions' = userSessions
                /\ generatedCodes' = generatedCodes
                /\ activePayments' = activePayments
                /\ minted' = minted
      ]_vars

\* a capture has been refused for its amount while an order is pending
C18_Witness ==
    /\ resp.route = "capture-paypal-payment"
    /\ resp.status = 400
    /\ resp.error = "Invalid payment amount"
    /\ DOMAIN activePayments # {}
    /\ userSessions # {}

\* C19: a capture answered with success adds exactly one entry to the
\* generated-code table, under the code it returns, a key that was not in the
\* table: the entry has used = true, the capturing session's userId, the
\* order id and the payer id of the request and createdAt = now; the other
\* entries are left as they were, and the session is premium until now + 24
\* hours.  (That another session can then activate the code is the witness.)
C19_CaptureStoresUsedCode ==
    [][ (resp'.route = "capture-paypal-payment" /\ resp'.status = 200) =>
            /\ resp'.code \notin DOMAIN generatedCodes
            /\ DOMAIN generatedCodes' = DOMAIN generatedCodes \cup {resp'.code}
            /\ \A c \in DOMAIN generatedCodes : generatedCodes'[c] = generatedCodes[c]
            /\ generatedCodes'[resp'.code].used = TRUE
            /\ generatedCodes'[resp'.code].userId = resp'.user
            /\ generatedCodes'[resp'.code].paypalOrderId = resp'.orderId
            /\ generatedCodes'[resp'.code].paypalPayerId = "PAYER_A"
            /\ generatedCodes'[resp'.code].createdAt = now
            /\ resp'.user \in userSessions'
            /\ sessions'[resp'.user].premiumUntil = now + PremiumDays
      ]_vars

\* the code returned by the second capture has been activated by a session
\* other than its purchaser
C19_Witness ==
    /\ GrantAnswer
    /\ resp.route = "activate-premium-code"
    /\ minted.codes = 2
    /\ resp.code = GeneratedCodeNames[2]
    /\ resp.code \in DOMAIN generatedCodes
    /\ generatedCodes[resp.code].userId # resp.user
    /\ generatedCodes[resp.code].activatedBy = resp.user
    /\ now < sessions[resp.user].premiumUntil

\* C20: every payment in the table was created with status 'pending', and
\* after a capture answered with success for an orderId that is in the table
\* the status of that payment is 'completed'.
C20_CapturedOrderCompleted ==
    /\ \A o \in DOMAIN activePayments :
          activePayments[o].status \in {"pending", "completed"}
    /\ (resp.route = "capture-paypal-payment" /\ resp.status = 200
           /\ resp.orderId \in DOMAIN activePayments) =>
          activePayments[resp.orderId].status = "completed"

----------------------------------------------------------------------------
(* Retention: the cleanup at the ages around the three retention periods *)

MaxRetentionTicks == 2    \* the clock advances at most this often in these runs

\* The clock is seen to advance by a day, by a day less than the session
\* retention period, by that period, or by the code retention period
RetentionSteps ==
    {PaymentRetentionDays, SessionRetentionDays - 1, SessionRetentionDays,
     CodeRetentionDays}

TickRetention(days) ==
    /\ ticks < MaxRetentionTicks
    /\ ticks' = ticks + 1
    /\ now' = now + days
    /\ resp' = NoResp
    /\ UNCHANGED <<focus, env, sessions, userSessions, inflight, generatedCodes, activePayments, minted, freeCompleted, outputDir>>

NextRetention ==
    \/ UserStatus(NoUserId)
    \/ \E userId \in DOMAIN sessions : ActivatePremiumCode(userId, "PREMIUM24H")
    \/ \E userId \in DOMAIN sessions : CreatePaypalOrder(userId)
    \/ \E userId \in DOMAIN sessions, orderId \in OrderIdInputs :
          CapturePaypalPayment(userId, orderId, "PAYER_A", "COMPLETED", "2.00")
    \/ \E days \in RetentionSteps : TickRetention(days)
    \/ Cleanup
SpecRetention == InitAccounts /\ [][NextRetention]_vars

\* C21: a cleanup pass deletes exactly the entries older than their
\* retention period and nothing else: a session iff now - createdAt > 7 days
\* (8 days old is removed, 6 and exactly 7 days old survive), a payment iff
\* now - createdAt > 1 day whatever its status, a generated code iff
\* now - createdAt > 30 days; premium access does not keep a session.
C21_CleanupDeletesExactlyTheExpired ==
    [][ Cleanup =>
          /\ \A u \in userSessions :
                /\ (u \notin userSessions') <=> (now - sessions[u].createdAt > 7)
                /\ now - sessions[u].createdAt = 8 => u \notin userSessions'
                /\ now - sessions[u].createdAt \in {6, 7} => u \in userSessions'
          /\ userSessions' \subseteq userSessions
          /\ sessions' = sessions
          /\ \A o \in DOMAIN activePayments :
                /\ (o \notin DOMAIN activePayments') <=>
                      (now - activePayments[o].createdAt > 1)
                /\ o \in DOMAIN activePayments' =>
                      activePayments'[o] = activePayments[o]
          /\ DOMAIN activePayments' \subseteq DOMAIN activePayments
          /\ \A c \in DOMAIN generatedCodes :
                /\ (c \notin DOMAIN generatedCodes') <=>
                      (now - generatedCodes[c].createdAt > 30)
                /\ c \in DOMAIN generatedCodes' =>
                      generatedCodes'[c] = generatedCodes[c]
          /\ DOMAIN generatedCodes' \subseteq DOMAIN generatedCodes
      ]_vars

\* a cleanup has removed a premium session that is 8 days old and kept one
\* that is exactly 7 days old
C21_Witness ==
    /\ \E u \in DOMAIN sessions \ userSessions :
          /\ now - sessions[u].createdAt = 8
          /\ hasPremiumAccess(sessions[u])
    /\ \E v \in userSessions : now - sessions[v].createdAt = 7

----------------------------------------------------------------------------
(* repairPDFEnhanced: the documents it is given *)

MaxPages == 2    \* pages of an uploaded document

MaxDimension == 14400    \* width > 14400 || height > 14400
LetterWidth == 612       \* page.setSize(612, ...)
LetterHeight == 792      \* page.setSize(..., 792)
ReportLogLimit == 25     \* repairLog.slice(0, 25)

\* A page of a parsed document.  no is its place in the array that
\* pdfDoc.getPages() returned (0 for a page the repair created); throwsAt is
\* the call on the page that throws during the inspection; recreate is the
\* call that throws when the premium repair recreates the page.
Page(no, throwsAt, width, height, angle, recreate) ==
    [no |-> no, throwsAt |-> throwsAt, width |-> width, height |-> height,
     angle |-> angle, recreate |-> recreate, text |-> ""]

\* pdfDoc.insertPage(i) followed by newPage.setSize(612, 792) and drawText
NewPage ==
    [Page(0, "never", LetterWidth, LetterHeight, 0, "never") EXCEPT
        !.text = "was corrupted and has been recreated"]

\* pdfDoc.addPage([612, 792]) followed by drawText
ReportPage ==
    [Page(0, "never", LetterWidth, LetterHeight, 0, "never") EXCEPT
        !.text = "PDF REPAIR REPORT"]

PageInputs(no) ==
    {Page(no, "never", LetterWidth, LetterHeight, 0, "never"),
     Page(no, "never", MaxDimension, MaxDimension, 180, "never"),
     Page(no, "never", 0, LetterHeight, 0, "never"),
     Page(no, "never", MaxDimension + 1, 500, 90, "never"),
     Page(no, "never", 500, -1, 0, "never"),
     Page(no, "never", 0, MaxDimension + 1, 45, "never"),
     Page(no, "never", LetterWidth, LetterHeight, 45, "never"),
     Page(no, "never", LetterWidth, LetterHeight, 135, "never"),
     Page(no, "never", LetterWidth, LetterHeight, -45, "never"),
     Page(no, "never", LetterWidth, LetterHeight, 80, "never"),
     Page(no, "getSize", LetterWidth, LetterHeight, 0, "never"),
     Page(no, "getSize", LetterWidth, LetterHeight, 0, "insertPage"),
     Page(no, "getSize", LetterWidth, LetterHeight, 0, "removePage"),
     Page(no, "getRotation", 0, LetterHeight, 0, "never")}

PagesInputs(n) ==
    {pages \in [1..n -> UNION {PageInputs(no) : no \in 1..n}] :
        \A no \in 1..n : pages[no].no = no}

\* A document with more log lines than the report page lists: every page
\* has a bad width, a bad height and a bad rotation
LongPages ==
    [no \in 1..((ReportLogLimit \div 3) + 1) |->
        Page(no, "never", 0, MaxDimension + 1, 45, "never")]

\* What PDFDocument.load parsed: whether the title and the author hold a NUL
\* character, and the pages
Document(titleNul, authorNul, pages) ==
    [titleNul |-> titleNul, authorNul |-> authorNul, pages |-> pages]

NoDocument == Document(FALSE, FALSE, <<>>)

\* The metadata vary in the documents of at most one page
DocumentInputs ==
    {Document(FALSE, FALSE, pages) : pages \in UNION {PagesInputs(n) : n \in 0..MaxPages}}
    \cup {Document(titleNul, authorNul, pages) :
             titleNul \in BOOLEAN, authorNul \in BOOLEAN,
             pages \in UNION {PagesInputs(n) : n \in 0..1}}
    \cup {Document(FALSE, TRUE, LongPages)}

----------------------------------------------------------------------------
(* repairPDFEnhanced: steps 2 to 4, which run without suspending *)

SizeOk(d) == d > 0 /\ d <= MaxDimension

\* Mutant: the angle is rounded down
NormalizedAngleFloor(angle) == (angle \div 90) * 90

\* Math.round(angle / 90) * 90, for an integer angle
NormalizedAngle(angle) == ((2 * angle + 90) \div 180) * 90

\* rotation.angle % 90 !== 0
RotationInvalid(angle) == angle % 90 # 0

\* The counters and the document of a repair
Progress(doc, found, fixed, valid, repaired, log) ==
    [pdfDoc |-> doc, issuesFound |-> found, issuesFixed |-> fixed,
     validPages |-> valid, repairedPages |-> repaired, repairLog |-> log]

\* page.setSize and page.setRotation change the page object, which the
\* document holds too
WithPage(doc, page) ==
    [doc EXCEPT !.pages =
        [k \in DOMAIN @ |-> IF @[k].no = page.no THEN page ELSE @[k]]]

\* Step 3: the metadata
AfterMetadata(st) ==
    LET title == IF st.pdfDoc.titleNul THEN 1 ELSE 0
        author == IF st.pdfDoc.authorNul THEN 1 ELSE 0
    IN  [st EXCEPT !.pdfDoc.titleNul = FALSE, !.pdfDoc.authorNul = FALSE,
                   !.issuesFound = @ + title + author,
                   !.issuesFixed = @ + title + author,
                   !.repairLog = @ + title + author]

\* Mutant: a bad width is fixed without being counted
AfterWidthUncounted(st, page) ==
    IF ~SizeOk(page.width)
    THEN [st EXCEPT !.pdfDoc =
              WithPage(@, [page EXCEPT !.width = LetterWidth,
                              !.height = IF SizeOk(page.height) THEN page.height
                                         ELSE LetterHeight])]
    ELSE st

\* if (width <= 0 || width > 14400) { page.setSize(612, ...) ... }
AfterWidth(st, page) ==
    IF ~SizeOk(page.width)
    THEN [st EXCEPT !.pdfDoc =
              WithPage(@, [page EXCEPT !.width = LetterWidth,
                              !.height = IF SizeOk(page.height) THEN page.height
                                         ELSE LetterHeight]),
              !.issuesFound = @ + 1, !.issuesFixed = @ + 1,
              !.repairedPages = @ + 1, !.repairLog = @ + 1]
    ELSE st

\* if (height <= 0 || height > 14400) { page.setSize(..., 792) ... }; width
\* is the value that getSize returned
AfterHeight(st, page) ==
    IF ~SizeOk(page.height)
    THEN [st EXCEPT !.pdfDoc =
              WithPage(@, [page EXCEPT !.width = IF SizeOk(page.width) THEN page.width
                                                  ELSE LetterWidth,
                              !.height = LetterHeight]),
              !.issuesFound = @ + 1, !.issuesFixed = @ + 1,
              !.repairedPages = @ + 1, !.repairLog = @ + 1]
    ELSE st

\* The page object as the document holds it now
PageNow(st, page) ==
    LET k == CHOOSE k \in DOMAIN st.pdfDoc.pages : st.pdfDoc.pages[k].no = page.no
    IN  st.pdfDoc.pages[k]

\* Mutant: a rotation is fixed without being counted as found
AfterRotationUnfound(st, page) ==
    IF RotationInvalid(page.angle)
    THEN [st EXCEPT !.pdfDoc =
              WithPage(@, [PageNow(st, page) EXCEPT
                              !.angle = NormalizedAngle(page.angle)]),
              !.issuesFixed = @ + 1,
              !.repairedPages = @ + 1, !.repairLog = @ + 1]
    ELSE st

\* if (rotation.angle % 90 !== 0) { page.setRotation(...) ... }
AfterRotation(st, page) ==
    IF RotationInvalid(page.angle)
    THEN [st EXCEPT !.pdfDoc =
              WithPage(@, [PageNow(st, page) EXCEPT
                              !.angle = NormalizedAngle(page.angle)]),
              !.issuesFound = @ + 1, !.issuesFixed = @ + 1,
              !.repairedPages = @ + 1, !.repairLog = @ + 1]
    ELSE st

InsertAt(seq, k, e) == SubSeq(seq, 1, k - 1) \o <<e>> \o SubSeq(seq, k, Len(seq))
RemoveAt(seq, k) == SubSeq(seq, 1, k - 1) \o SubSeq(seq, k + 1, Len(seq))

\* The catch of a page: the issue is counted, and the premium repair
\* inserts a new page at the index of the page and removes the page after it
AfterPageError(st, i, page, isPremium) ==
    LET counted == [st EXCEPT !.issuesFound = @ + 1, !.repairLog = @ + 1]
        inserted == [counted EXCEPT !.pdfDoc.pages = InsertAt(@, i, NewPage)]
    IN  IF ~isPremium THEN counted
        ELSE IF page.recreate = "insertPage"
             THEN [counted EXCEPT !.repairLog = @ + 1]
        ELSE IF page.recreate = "removePage"
             THEN [inserted EXCEPT !.repairLog = @ + 1]
        ELSE [inserted EXCEPT !.pdfDoc.pages = RemoveAt(@, i + 1),
                              !.issuesFixed = @ + 1, !.repairedPages = @ + 1,
                              !.repairLog = @ + 1]

\* One turn of the loop over pages
AfterPage(st, i, page, isPremium) ==
    IF page.throwsAt = "getSize" THEN AfterPageError(st, i, page, isPremium)
    ELSE LET sized == AfterHeight(AfterWidth(st, page), page)
         IN  IF page.throwsAt = "getRotation"
             THEN AfterPageError(sized, i, page, isPremium)
             ELSE [AfterRotation(sized, page) EXCEPT !.validPages = @ + 1]

RECURSIVE AfterPages(_, _, _, _)
\* The loop over pages, from the page at i on
AfterPages(st, pages, i, isPremium) ==
    IF i > Len(pages) THEN st
    ELSE AfterPages(AfterPage(st, i, pages[i], isPremium), pages, i + 1, isPremium)

\* Steps 2 to 4 on the document that a load returned: found and fixed come
\* from the load cascade
AfterAnalysis(doc, found, fixed, log, isPremium) ==
    AfterPages(AfterMetadata(Progress(doc, found, fixed, 0, 0, log + 1)),
               doc.pages, 1, isPremium)

----------------------------------------------------------------------------
(* repairPDFEnhanced: the steps between its awaits *)

\* The load strategies, in the order of the nested try blocks
LoadStrategies == <<"standard", "recovery", "careful">>

SeverelyCorrupted == "PDF is severely corrupted and cannot be repaired"
NoValidPages == "No valid pages found in document - cannot repair"

NoProgress == Progress(NoDocument, 0, 0, 0, 0, 0)

\* The locals of a call of repairPDFEnhanced: pc is the await it is suspended
\* at ("returned" and "thrown" once it has ended), attempts are the load
\* strategies started so far, st holds pdfDoc and the counters, reportLines
\* is the number of log lines drawn on the report page (NULL without one),
\* fontError tells whether step 5 caught an error, error is the message of
\* the error thrown; parsed is history: the document as the load returned it
RepairLocals(pc, attempts, loadMethod, st, originalPageCount, reportLines, fontError, error) ==
    [pc |-> pc, attempts |-> attempts, loadMethod |-> loadMethod, st |-> st,
     originalPageCount |-> originalPageCount, reportLines |-> reportLines,
     fontError |-> fontError, error |-> error, parsed |-> NoDocument]

\* A process-pdf handler suspended inside repairPDFEnhanced
RepairRequest(r, locals) ==
    [user |-> r.user, tool |-> r.tool, convertTo |-> r.convertTo, pc |-> r.pc,
     isPremium |-> r.isPremium, currentUsage |-> r.currentUsage,
     usage0 |-> r.usage0, repair |-> locals]

InRepair(r) == "repair" \in DOMAIN r

Repairs == {r \in BagToSet(inflight) : InRepair(r)}

\* The handler goes on with other locals
Resume(r, locals) ==
    /\ inflight' = (inflight (-) SetToBag({r})) (+) SetToBag({RepairRequest(r, locals)})
    /\ resp' = NoResp
    /\ UNCHANGED <<now, ticks, focus, env, sessions, userSessions, generatedCodes,
                   activePayments, minted, freeCompleted, outputDir>>

\* case 'repair': repairPDFEnhanced(files[0], isPremium), up to the first load
RepairStart(r) ==
    /\ BagIn(r, inflight)
    /\ ~InRepair(r)
    /\ r.tool = "repair"
    /\ r.pc = "processing"
    /\ Resume(r, RepairLocals("load", <<LoadStrategies[1]>>, LoadStrategies[1],
                              NoProgress, 0, NULL, FALSE, ""))

Throw(l, error) == [l EXCEPT !.pc = "thrown", !.error = error]

\* Mutant: the number of valid pages is not tested
AfterFontsUnchecked(l, isPremium) ==
    IF isPremium /\ (l.st.issuesFound > 0 \/ l.st.repairedPages > 0)
    THEN [l EXCEPT !.pc = "report"]
    ELSE [l EXCEPT !.pc = "save"]

\* Steps 7 and 8, up to the next await
AfterFonts(l, isPremium) ==
    IF l.st.validPages = 0 THEN Throw(l, NoValidPages)
    ELSE IF isPremium /\ (l.st.issuesFound > 0 \/ l.st.repairedPages > 0)
         THEN [l EXCEPT !.pc = "report"]
    ELSE [l EXCEPT !.pc = "save"]

\* Mutant: every load that fails is counted as an issue
AfterLoadFailureCountsEach(l, strategies) ==
    LET tried == Len(l.attempts)
        counted == [l EXCEPT !.st.issuesFound = @ + 1, !.st.repairLog = @ + 1]
    IN  IF tried < Len(strategies)
        THEN [counted EXCEPT !.attempts = Append(@, strategies[tried + 1])]
        ELSE Throw(counted, SeverelyCorrupted)

\* A load throws: the next strategy is started, or the repair gives up
AfterLoadFailure(l, strategies) ==
    LET tried == Len(l.attempts)
        first == tried = 1
        counted == [l EXCEPT !.st.issuesFound = IF first THEN @ + 1 ELSE @,
                             !.st.repairLog = IF first THEN @ + 1 ELSE @]
    IN  IF tried < Len(strategies)
        THEN [counted EXCEPT !.attempts = Append(@, strategies[tried + 1])]
        ELSE Throw(counted, SeverelyCorrupted)

\* A load returns a document: steps 2 to 4 run, and step 5 for premium
AfterLoadSuccess(l, doc, isPremium) ==
    LET strategy == l.attempts[Len(l.attempts)]
        fallback == IF Len(l.attempts) > 1 THEN 1 ELSE 0
        analysed == AfterAnalysis(doc, l.st.issuesFound, l.st.issuesFixed + fallback,
                                  l.st.repairLog + fallback, isPremium)
        loaded == [l EXCEPT !.loadMethod = strategy, !.st = analysed,
                            !.originalPageCount = Len(doc.pages), !.parsed = doc]
    IN  IF isPremium THEN [loaded EXCEPT !.pc = "fonts"]
        ELSE AfterFonts(loaded, isPremium)

\* PDFDocument.load ends: it throws, or it returns the parsed document
LoadDone(r, ok, parsed, strategies) ==
    /\ r \in Repairs
    /\ r.repair.pc = "load"
    /\ Resume(r, IF ok
                 THEN AfterLoadSuccess(r.repair, parsed, r.isPremium)
                 ELSE AfterLoadFailure(r.repair, strategies))

\* Step 5: pdfDoc.embedFont ends; an error is caught and logged
FontsDone(r, ok) ==
    /\ r \in Repairs
    /\ r.repair.pc = "fonts"
    /\ Resume(r, AfterFonts([r.repair EXCEPT !.st.repairLog = @ + 1,
                                             !.fontError = ~ok],
                            r.isPremium))

Min(a, b) == IF a <= b THEN a ELSE b

\* Mutant: every log line is drawn
ReportLinesAll(log) == log

\* The lines that repairLog.slice(0, 25).forEach draws: yPos starts at 590
\* and a line is drawn while yPos > 50
ReportLines(log) == Min(Min(log, ReportLogLimit), (590 - 50 + 14) \div 15)

\* Step 8: pdfDoc.embedFont of the report page ends
ReportFontsDone(r, ok) ==
    /\ r \in Repairs
    /\ r.repair.pc = "report"
    /\ Resume(r, IF ok
                 THEN [r.repair EXCEPT !.pc = "save",
                          !.st.pdfDoc.pages = Append(@, ReportPage),
                          !.reportLines = ReportLines(r.repair.st.repairLog),
                          !.st.repairLog = @ + 1]
                 ELSE Throw([r.repair EXCEPT !.st.pdfDoc.pages = Append(@, ReportPage)],
                            "embedFont"))

\* Step 9: pdfDoc.save ends
SaveDone(r, ok) ==
    /\ r \in Repairs
    /\ r.repair.pc = "save"
    /\ Resume(r, IF ok THEN [r.repair EXCEPT !.pc = "returned"]
                 ELSE Throw(r.repair, "save"))

\* What repairPDFEnhanced returns: nothing when it throws
NoStats ==
    [issuesFound |-> 0, issuesFixed |-> 0, pagesRepaired |-> 0, totalPages |-> 0,
     loadMethod |-> "undefined", repairLog |-> 0]

NoResult == [buffer |-> NoDocument, repairStats |-> NoStats]

RepairStats(l) ==
    [issuesFound |-> l.st.issuesFound, issuesFixed |-> l.st.issuesFixed,
     pagesRepaired |-> l.st.repairedPages, totalPages |-> l.originalPageCount,
     loadMethod |-> l.loadMethod, repairLog |-> l.st.repairLog]

\* Mutant: the document and the counters are returned however the repair ended
RepairResultAlways(l) == [buffer |-> l.st.pdfDoc, repairStats |-> RepairStats(l)]

RepairResult(l) ==
    IF l.pc = "returned"
    THEN [buffer |-> l.st.pdfDoc, repairStats |-> RepairStats(l)]
    ELSE NoResult

Ended(r) == InRepair(r) /\ r.repair.pc \in {"returned", "thrown"}

\* repairPDFEnhanced has ended: the handler goes on after the switch, or in
\* its catch
RepairDone(r) ==
    /\ r \in Repairs
    /\ Ended(r)
    /\ r.pc = "processing"
    /\ ProcessingDone(r, RepairResult(r.repair) # NoResult)

NextRepairWith(strategies) ==
    \/ \E userId \in {NoUserId} \cup DOMAIN sessions :
          ProcessPdf(1, userId, 1, "repair", NoFormat)
    \/ /\ inflight = EmptyBag
       /\ \E userId \in DOMAIN sessions : ActivatePremiumCode(userId, "PREMIUM24H")
    \/ \E r \in BagToSet(inflight) : RepairStart(r)
    \/ \E r \in Repairs, ok \in BOOLEAN :
          \E parsed \in (IF ok THEN DocumentInputs ELSE {NoDocument}) :
             LoadDone(r, ok, parsed, strategies)
    \/ \E r \in Repairs, ok \in BOOLEAN : FontsDone(r, ok)
    \/ \E r \in Repairs, ok \in BOOLEAN : ReportFontsDone(r, ok)
    \/ \E r \in Repairs, ok \in BOOLEAN : SaveDone(r, ok)
    \/ \E r \in Repairs : RepairDone(r)
    \/ \E r \in BagToSet(inflight), ok \in BOOLEAN :
          WriteDone(r, ok) /\ ResultUntracked

NextRepair == NextRepairWith(LoadStrategies)
SpecRepair == InitWith({"repair"}) /\ [][NextRepair]_vars

----------------------------------------------------------------------------
(* Claims about repairPDFEnhanced *)

\* A document in which the repair finds nothing to fix
CleanPage(page) ==
    /\ page.throwsAt = "never"
    /\ SizeOk(page.width) /\ SizeOk(page.height)
    /\ ~RotationInvalid(page.angle)

CleanDocument(doc) ==
    /\ ~doc.titleNul /\ ~doc.authorNul
    /\ \A k \in DOMAIN doc.pages : CleanPage(doc.pages[k])

\* C22: the loads are attempted in the order standard, recovery, careful; a
\* load that succeeds ends the cascade, no later strategy is attempted, and
\* loadMethod is the strategy that succeeded; loading a clean document leaves
\* issuesFound and issuesFixed at 0 when the standard load succeeds and at 1
\* each when the standard load fails and a later one succeeds.
C22_LoadCascadeInOrder ==
    [][ \A r \in Repairs :
          LET l == r.repair
              n == Len(l.attempts)
              fallback == IF n > 1 THEN 1 ELSE 0
          IN  /\ \A r2 \in Repairs' :
                   LET l2 == r2.repair
                   IN  /\ \A k \in 1..Len(l2.attempts) :
                             l2.attempts[k] = <<"standard", "recovery", "careful">>[k]
                       /\ l.pc # "load" =>
                             l2.attempts = l.attempts /\ l2.loadMethod = l.loadMethod
                       /\ l.pc = "load" =>
                             \/ /\ n < 3
                                /\ l2.pc = "load"
                                /\ l2.attempts = Append(l.attempts,
                                       <<"standard", "recovery", "careful">>[n + 1])
                                /\ l2.st.issuesFound = 1 /\ l2.st.issuesFixed = 0
                             \/ /\ n = 3
                                /\ l2.pc = "thrown" /\ l2.error = SeverelyCorrupted
                                /\ l2.attempts = l.attempts
                                /\ l2.st.issuesFound = 1 /\ l2.st.issuesFixed = 0
                             \/ /\ l2.pc # "load" /\ l2.error # SeverelyCorrupted
                                /\ l2.attempts = l.attempts
                                /\ l2.loadMethod = l.attempts[n]
                                /\ l2.st.issuesFound >= fallback
                                /\ l2.st.issuesFixed >= fallback
              /\ \A doc \in {d \in DocumentInputs : CleanDocument(d)} :
                   LoadDone(r, TRUE, doc, LoadStrategies) =>
                      \A r2 \in Repairs' :
                         /\ r2.repair.st.issuesFound = fallback
                         /\ r2.repair.st.issuesFixed = fallback
      ]_vars

\* a repair has returned a clean document that only the careful load could
\* parse
C22_Witness ==
    \E r \in Repairs :
       /\ r.repair.pc = "returned"
       /\ r.repair.attempts = <<"standard", "recovery", "careful">>
       /\ r.repair.loadMethod = "careful"
       /\ r.repair.st.issuesFound = 1
       /\ r.repair.st.issuesFixed = 1

\* C23: when the standard, the recovery and the careful load all fail, the
\* repair throws the severely-corrupted error and returns neither a document
\* nor statistics; the request is answered with an error and the usage of the
\* session is left as it was.
C23_AllLoadsFail ==
    [][ \A r \in Repairs :
          /\ (r.repair.pc = "load" /\ Len(r.repair.attempts) = 3
                 /\ LoadDone(r, FALSE, NoDocument, LoadStrategies)) =>
                \A r2 \in Repairs' :
                   /\ r2.repair.pc = "thrown"
                   /\ r2.repair.error = SeverelyCorrupted
                   /\ RepairResult(r2.repair) = NoResult
          /\ (r.repair.error = SeverelyCorrupted /\ inflight' # inflight) =>
                /\ inflight' = EmptyBag
                /\ resp'.route = "process-pdf"
                /\ resp'.status = 500
                /\ resp'.user = r.user
                /\ sessions' = sessions
                /\ userSessions' = userSessions
      ]_vars

\* a free session that has used the repair once is about to be answered for
\* a document that no strategy could load
C23_Witness ==
    \E r \in Repairs :
       /\ r.repair.pc = "thrown"
       /\ r.repair.error = SeverelyCorrupted
       /\ r.repair.attempts = LoadStrategies
       /\ ~r.isPremium
       /\ sessions[r.user].usage["repair"] = 1

\* The repairs whose loop over pages has run
Analysed == {r \in Repairs : r.repair.pc # "load" /\ r.repair.error # SeverelyCorrupted}

\* The pages of the document that were in the array of getPages
PagesKept(l) == {k \in DOMAIN l.st.pdfDoc.pages : l.st.pdfDoc.pages[k].no # 0}

BadDimensions(doc) ==
    {<<k, "width">> : k \in {j \in DOMAIN doc.pages : ~SizeOk(doc.pages[j].width)}}
    \cup {<<k, "height">> : k \in {j \in DOMAIN doc.pages : ~SizeOk(doc.pages[j].height)}}

\* C24: after the loop over pages every page whose inspection did not throw
\* has a width and a height in (0, 14400]: a dimension that was out of bounds
\* is 612 (width) or 792 (height), one that was in bounds is kept; and in a
\* document with no other defect each out-of-bounds dimension is counted once
\* in issuesFound and once in issuesFixed.
C24_DimensionsRepaired ==
    \A r \in Analysed :
       LET l == r.repair
           fallback == IF Len(l.attempts) > 1 THEN 1 ELSE 0
       IN  /\ \A k \in PagesKept(l) :
                LET page == l.st.pdfDoc.pages[k]
                    was == l.parsed.pages[page.no]
                IN  was.throwsAt = "never" =>
                       /\ page.width > 0 /\ page.width <= 14400
                       /\ page.height > 0 /\ page.height <= 14400
                       /\ page.width = IF was.width > 0 /\ was.width <= 14400
                                       THEN was.width ELSE 612
                       /\ page.height = IF was.height > 0 /\ was.height <= 14400
                                        THEN was.height ELSE 792
           /\ (/\ ~l.parsed.titleNul /\ ~l.parsed.authorNul
               /\ \A k \in DOMAIN l.parsed.pages :
                     /\ l.parsed.pages[k].throwsAt = "never"
                     /\ l.parsed.pages[k].angle % 90 = 0) =>
                 /\ l.st.issuesFound = fallback + Cardinality(BadDimensions(l.parsed))
                 /\ l.st.issuesFixed = fallback + Cardinality(BadDimensions(l.parsed))

\* a repair has returned a document of two pages: one had a width beyond the
\* bound and a height within it, the other a bad height only
C24_Witness ==
    \E r \in Analysed :
       /\ r.repair.pc = "returned"
       /\ Len(r.repair.parsed.pages) = 2
       /\ r.repair.parsed.pages[1].width = MaxDimension + 1
       /\ r.repair.parsed.pages[1].height = 500
       /\ r.repair.parsed.pages[2].height = -1
       /\ r.repair.st.pdfDoc.pages[1].width = LetterWidth
       /\ r.repair.st.pdfDoc.pages[1].height = 500
       /\ r.repair.st.pdfDoc.pages[2].height = LetterHeight
       /\ r.repair.st.issuesFound = 2

Abs(x) == IF x < 0 THEN -x ELSE x

BadRotations(doc) == {k \in DOMAIN doc.pages : doc.pages[k].angle % 90 # 0}

\* C25: a page that the loop inspects without an error and whose rotation is
\* not a multiple of 90 ends with a multiple of 90 that is nearest to its
\* angle (45 ends as 0 or 90); a page whose rotation is a multiple of 90 keeps
\* it; and in a document with no other defect each bad rotation is counted
\* once in issuesFound and once in issuesFixed.
C25_RotationNormalized ==
    \A r \in Analysed :
       LET l == r.repair
           fallback == IF Len(l.attempts) > 1 THEN 1 ELSE 0
       IN  /\ \A k \in PagesKept(l) :
                LET page == l.st.pdfDoc.pages[k]
                    was == l.parsed.pages[page.no]
                IN  was.throwsAt = "never" =>
                       /\ page.angle % 90 = 0
                       /\ 2 * Abs(page.angle - was.angle) <= 90
                       /\ was.angle % 90 = 0 => page.angle = was.angle
                       /\ was.angle = 45 => page.angle \in {0, 90}
           /\ (/\ ~l.parsed.titleNul /\ ~l.parsed.authorNul
               /\ \A k \in DOMAIN l.parsed.pages :
                     /\ l.parsed.pages[k].throwsAt = "never"
                     /\ SizeOk(l.parsed.pages[k].width)
                     /\ SizeOk(l.parsed.pages[k].height)) =>
                 /\ l.st.issuesFound = fallback + Cardinality(BadRotations(l.parsed))
                 /\ l.st.issuesFixed = fallback + Cardinality(BadRotations(l.parsed))

\* a repair has returned a document of two pages that were rotated by 45 and
\* by 80 degrees
C25_Witness ==
    \E r \in Analysed :
       /\ r.repair.pc = "returned"
       /\ Len(r.repair.parsed.pages) = 2
       /\ r.repair.parsed.pages[1].angle = 45
       /\ r.repair.parsed.pages[2].angle = 80
       /\ r.repair.st.pdfDoc.pages[1].angle \in {0, 90}
       /\ r.repair.st.pdfDoc.pages[2].angle = 90
       /\ r.repair.st.issuesFound = 2
       /\ r.repair.st.issuesFixed = 2

\* No page of the parsed document passes the inspection
NoPagePasses(doc) == \A k \in DOMAIN doc.pages : doc.pages[k].throwsAt # "never"

\* C26: for a caller who is not premium, a loaded document in which every
\* page throws during the inspection, or which has no pages, makes the repair
\* throw the no-valid-pages error and return no document.
C26_FreeNoValidPages ==
    \A r \in Analysed :
       (~r.isPremium /\ NoPagePasses(r.repair.parsed)) =>
          /\ r.repair.pc = "thrown"
          /\ r.repair.error = NoValidPages
          /\ RepairResult(r.repair) = NoResult
          /\ r.pc # "writing"

\* the repair of a free caller has ended on a document whose two pages both
\* throw
C26_Witness ==
    \E r \in Analysed :
       /\ ~r.isPremium
       /\ Len(r.repair.parsed.pages) = 2
       /\ r.repair.parsed.pages[1].throwsAt = "getSize"
       /\ r.repair.parsed.pages[2].throwsAt = "getRotation"
       /\ r.repair.error = NoValidPages
       /\ r.repair.st.issuesFound >= 2

\* Every page of the parsed document throws during the inspection and can
\* be recreated
EveryPageRecreated(doc) ==
    /\ Len(doc.pages) > 0
    /\ \A k \in DOMAIN doc.pages :
          doc.pages[k].throwsAt # "never" /\ doc.pages[k].recreate = "never"

\* C27: for a premium caller, a document in which every page throws during
\* the inspection and every page is recreated does not end in the
\* no-valid-pages error, and when the repair returns pagesRepaired equals
\* totalPages.
C27_PremiumRecreatesEveryPage ==
    \A r \in Analysed :
       (r.isPremium /\ EveryPageRecreated(r.repair.parsed)) =>
          /\ r.repair.error # NoValidPages
          /\ r.repair.pc = "returned" =>
                RepairStats(r.repair).pagesRepaired = RepairStats(r.repair).totalPages

\* C28: a repair in which the font embedding of step 5 failed does not
\* return: it ends with an error, and its handler never reaches the point
\* where the result is written and the usage is counted.
C28_FontFailureFailsRepair ==
    \A r \in Repairs :
       r.repair.fontError =>
          /\ r.repair.pc # "returned"
          /\ RepairResult(r.repair) = NoResult
          /\ r.pc # "writing"

\* The document that PDFDocument.load parses from the bytes that pdfDoc.save
\* wrote: the metadata and the pages as they were left, numbered anew by
\* getPages
Reloaded(doc) ==
    [doc EXCEPT !.pages = [k \in DOMAIN @ |-> [@[k] EXCEPT !.no = k]]]

\* Steps 2 to 4 of a repair of the returned bytes, loaded by the standard
\* method
SecondPass(buffer, isPremium) == AfterAnalysis(Reloaded(buffer), 0, 0, 0, isPremium)

\* C29: a repair of the document that a repair returned, by a premium caller
\* or not, counts no issue found and no issue fixed.
C29_RepairIdempotent ==
    \A r \in Repairs :
       r.repair.pc = "returned" =>
          \A isPremium \in BOOLEAN :
             /\ SecondPass(RepairResult(r.repair).buffer, isPremium).issuesFound = 0
             /\ SecondPass(RepairResult(r.repair).buffer, isPremium).issuesFixed = 0

\* The places of the report pages in a document
ReportPages(doc) == {k \in DOMAIN doc.pages : doc.pages[k].text = "PDF REPAIR REPORT"}

\* No recreation of a page threw after it had inserted the new page
NoPageLeftBehind(doc) == \A k \in DOMAIN doc.pages : doc.pages[k].recreate # "removePage"

----------------------------------------------------------------------------
(* Claims about the inputs of /api/process-pdf *)

\* C31: a process-pdf request without files, without a tool, with a tool
\* name that is not one of the six tools, or with tool = convert and no
\* convertTo is answered with status 400.
C31_InvalidInputIs400 ==
    (/\ resp.route = "process-pdf"
     /\ \/ resp.tool \notin Tools
        \/ resp.tool = "convert" /\ resp.convertTo = NoFormat) =>
       resp.status = 400

----------------------------------------------------------------------------
(* The result files: fs.writeFile, the deletion task and /api/download *)

MaxResultFiles == 2    \* result files written in one run

ResultLifetimeHours == 1    \* setTimeout(..., 3600000)

\* generateFileName: a name never used before (files are numbered)
generateFileName == Cardinality(DOMAIN outputDir) + 1
StrangerFile == MaxResultFiles + 1    \* a name the server never generated

\* A result file and its deletion task: present tells whether the file is
\* on disk, age counts the hours since setTimeout (up to the delay), task is
\* "scheduled", "unlinking" (suspended in fs.unlink) or "done"; unlinks is
\* history: how often fs.unlink was called on the file
NewResultFile == [present |-> TRUE, age |-> 0, task |-> "scheduled", unlinks |-> 0]

\* fs.writeFile(outputPath, result.buffer) and, after res.json, setTimeout
ResultSaved(ok) ==
    outputDir' =
       IF ok
       THEN [f \in DOMAIN outputDir \cup {generateFileName} |->
               IF f = generateFileName THEN NewResultFile ELSE outputDir[f]]
       ELSE outputDir

\* An hour passes
HourPasses ==
    /\ \E f \in DOMAIN outputDir : outputDir[f].age < ResultLifetimeHours
    /\ outputDir' = [f \in DOMAIN outputDir |->
                        [outputDir[f] EXCEPT !.age = Min(@ + 1, ResultLifetimeHours)]]
    /\ resp' = NoResp
    /\ UNCHANGED <<now, ticks, focus, env, sessions, userSessions, inflight,
                   generatedCodes, activePayments, minted, freeCompleted>>

\* The timer of a file is due: its callback runs up to await fs.unlink
TimerFires(f) ==
    /\ f \in DOMAIN outputDir
    /\ outputDir[f].task = "scheduled"
    /\ outputDir[f].age >= ResultLifetimeHours
    /\ outputDir' = [outputDir EXCEPT ![f].task = "unlinking", ![f].unlinks = @ + 1]
    /\ resp' = NoResp
    /\ UNCHANGED <<now, ticks, focus, env, sessions, userSessions, inflight,
                   generatedCodes, activePayments, minted, freeCompleted>>

\* Mutant: a failed deletion is scheduled again
AfterUnlinkRetries(file, ok) ==
    IF ok THEN [file EXCEPT !.task = "done", !.present = FALSE]
    ELSE [file EXCEPT !.task = "scheduled"]

\* fs.unlink ends: the file is gone, or the error is logged
AfterUnlink(file, ok) ==
    [file EXCEPT !.task = "done", !.present = IF ok THEN FALSE ELSE @]

UnlinkDone(f, ok) ==
    /\ f \in DOMAIN outputDir
    /\ outputDir[f].task = "unlinking"
    /\ outputDir' = [outputDir EXCEPT ![f] = AfterUnlink(@, ok)]
    /\ resp' = NoResp
    /\ UNCHANGED <<now, ticks, focus, env, sessions, userSessions, inflight,
                   generatedCodes, activePayments, minted, freeCompleted>>

OnDisk(f) == f \in DOMAIN outputDir /\ outputDir[f].present

\* A handler of /api/download/:filename suspended at an await
DownloadRequest(filename, pc) == [route |-> "download", filename |-> filename, pc |-> pc]

DownloadResponse(status, error) ==
    [NoResp EXCEPT !.route = "download", !.status = status, !.error = error]

\* GET /api/download/:filename, up to await fs.access
Download(limit, filename) ==
    /\ BagCardinality(inflight) < limit
    /\ inflight' = inflight (+) SetToBag({DownloadRequest(filename, "access")})
    /\ resp' = NoResp
    /\ UNCHANGED <<now, ticks, focus, env, sessions, userSessions, generatedCodes,
                   activePayments, minted, freeCompleted, outputDir>>

Downloads == {r \in BagToSet(inflight) : "filename" \in DOMAIN r}

\* fs.access ends: the handler goes on to fs.readFile, or answers 404
AccessDone(r) ==
    /\ r \in Downloads
    /\ r.pc = "access"
    /\ IF OnDisk(r.filename)
       THEN /\ inflight' = (inflight (-) SetToBag({r}))
                              (+) SetToBag({DownloadRequest(r.filename, "readFile")})
            /\ resp' = NoResp
       ELSE /\ inflight' = inflight (-) SetToBag({r})
            /\ resp' = DownloadResponse(404, "File not found")
    /\ UNCHANGED <<now, ticks, focus, env, sessions, userSessions, generatedCodes,
                   activePayments, minted, freeCompleted, outputDir>>

\* fs.readFile ends: the file is sent, or the catch answers 404
ReadFileDone(r) ==
    /\ r \in Downloads
    /\ r.pc = "readFile"
    /\ inflight' = inflight (-) SetToBag({r})
    /\ resp' = IF OnDisk(r.filename) THEN DownloadResponse(200, "")
               ELSE DownloadResponse(404, "File not found")
    /\ UNCHANGED <<now, ticks, focus, env, sessions, userSessions, generatedCodes,
                   activePayments, minted, freeCompleted, outputDir>>

Handlers == {r \in BagToSet(inflight) : "tool" \in DOMAIN r}

NextFiles ==
    \/ /\ Cardinality(DOMAIN outputDir) < MaxResultFiles
       /\ \E userId \in {NoUserId} \cup DOMAIN sessions :
             ProcessPdf(1, userId, 1, "merge", NoFormat)
    \/ \E r \in Handlers, ok \in BOOLEAN : ProcessingDone(r, ok) /\ ResultUntracked
    \/ \E r \in Handlers, ok \in BOOLEAN : WriteDone(r, ok) /\ ResultSaved(ok)
    \/ HourPasses
    \/ \E f \in DOMAIN outputDir : TimerFires(f)
    \/ \E f \in DOMAIN outputDir, ok \in BOOLEAN : UnlinkDone(f, ok)
    \/ \E filename \in DOMAIN outputDir \cup {StrangerFile} : Download(1, filename)
    \/ \E r \in Downloads : AccessDone(r)
    \/ \E r \in Downloads : ReadFileDone(r)

SpecFiles == InitWith({"merge"}) /\ [][NextFiles]_vars

\* The timers run and fs.unlink returns
FairFiles ==
    /\ WF_vars(HourPasses)
    /\ \A f \in 1..MaxResultFiles :
          /\ WF_vars(TimerFires(f))
          /\ WF_vars(\E ok \in BOOLEAN : UnlinkDone(f, ok))

SpecFilesFair == SpecFiles /\ FairFiles

\* C32: a result file is on disk, and a download of it is answered with the
\* file, as long as its deletion task has not fired; the task does not fire
\* before an hour has passed, calls fs.unlink once and is never scheduled
\* again, whether the call succeeded or not; the file appears in the step
\* that sends the success response; a download of a deleted or unknown
\* filename is answered 404; and every file's task eventually ends, with the
\* file deleted when fs.unlink succeeded.
C32_ResultFileLifecycle ==
    /\ [](\A f \in DOMAIN outputDir :
             /\ outputDir[f].task = "scheduled" => outputDir[f].present
             /\ outputDir[f].age < 1 => outputDir[f].task = "scheduled"
             /\ outputDir[f].unlinks <= 1
             /\ outputDir[f].unlinks = 0 <=> outputDir[f].task = "scheduled")
    /\ [][ /\ \A f \in DOMAIN outputDir :
                /\ f \in DOMAIN outputDir'
                /\ outputDir[f].task = "done" => outputDir'[f] = outputDir[f]
                /\ UnlinkDone(f, TRUE) => ~outputDir'[f].present
                /\ outputDir'[f].unlinks >= outputDir[f].unlinks
           /\ DOMAIN outputDir' # DOMAIN outputDir =>
                 /\ resp'.route = "process-pdf"
                 /\ resp'.status = 200
           /\ resp'.route = "download" =>
                 \A r \in Downloads :
                    /\ (r.filename \notin DOMAIN outputDir) => resp'.status = 404
                    /\ (r.filename \in DOMAIN outputDir) =>
                          /\ ~outputDir[r.filename].present => resp'.status = 404
                          /\ outputDir[r.filename].task = "scheduled" =>
                                resp'.status = 200
      ]_vars
    /\ \A f \in 1..MaxResultFiles :
          (f \in DOMAIN outputDir) ~>
             (/\ f \in DOMAIN outputDir
              /\ outputDir[f].task = "done"
              /\ outputDir[f].unlinks = 1)

\* the first result file has been deleted, the second is still on disk after
\* its deletion failed, and a download has just been answered 404
C32_Witness ==
    /\ DOMAIN outputDir = {1, 2}
    /\ ~outputDir[1].present /\ outputDir[1].unlinks = 1
    /\ outputDir[2].present /\ outputDir[2].task = "done"
    /\ resp.route = "download" /\ resp.status = 404

----------------------------------------------------------------------------
(* The admin routes of part_000: /api/premium-stats,                        *)
(* /api/generate-manual-codes and /api/system-info                          *)

NoAdminToken == "undefined"    \* the header, or the variable, is absent

\* process.env as the server may be started
EnvInputs ==
    [NODE_ENV : {"production", "development", "undefined"},
     ADMIN_TOKEN : {NoAdminToken, "s3cret"}]

\* The x-admin-token header of a request
AdminTokenInputs == {NoAdminToken, "s3cret", "guess"}

\* req.body.count: absent (0), or a small number
CountInputs == {0, 1, 2}

AdminRoutes == {"premium-stats", "generate-manual-codes", "system-info"}

\* adminToken !== process.env.ADMIN_TOKEN && process.env.NODE_ENV === 'production'
Unauthorized(adminToken) ==
    adminToken # env.ADMIN_TOKEN /\ env.NODE_ENV = "production"

\* A response of an admin route.  adminToken is history: the header of the
\* request; codes are the codes the request added; the counts are those of
\* the body.
AdminResponse(route, status, adminToken, codes, total, recent, active) ==
    [route |-> route, status |-> status,
     error |-> IF status = 403 THEN "Unauthorized" ELSE "",
     adminToken |-> adminToken, codes |-> codes,
     totalGeneratedCodes |-> total, recentCodes |-> recent,
     activeSessions |-> active]

Forbidden(route, adminToken) ==
    AdminResponse(route, 403, adminToken, {}, NULL, NULL, NULL)

\* now - data.createdAt < 24 * 60 * 60 * 1000
RecentCodes == {c \in DOMAIN generatedCodes : now - generatedCodes[c].createdAt < 1}

PremiumStats(adminToken) ==
    /\ resp' = IF Unauthorized(adminToken)
               THEN Forbidden("premium-stats", adminToken)
               ELSE AdminResponse("premium-stats", 200, adminToken, {},
                                  Cardinality(DOMAIN generatedCodes),
                                  Cardinality(RecentCodes),
                                  Cardinality(userSessions))
    /\ UNCHANGED <<now, ticks, focus, env, sessions, userSessions, inflight,
                   generatedCodes, activePayments, minted, freeCompleted, outputDir>>

SystemInfo(adminToken) ==
    /\ resp' = IF Unauthorized(adminToken)
               THEN Forbidden("system-info", adminToken)
               ELSE AdminResponse("system-info", 200, adminToken, {},
                                  Cardinality(DOMAIN generatedCodes), NULL,
                                  Cardinality(userSessions))
    /\ UNCHANGED <<now, ticks, focus, env, sessions, userSessions, inflight,
                   generatedCodes, activePayments, minted, freeCompleted, outputDir>>

\* The entry of a manually generated code
ManualCode ==
    [userId |-> "manual_generation", createdAt |-> now, used |-> FALSE,
     type |-> "manual", generatedBy |-> "admin"]

\* const count = req.body.count || 1
ManualCount(count) == IF count = 0 THEN 1 ELSE count

GenerateManualCodes(adminToken, count) ==
    LET codes == {GeneratedCodeNames[minted.codes + k] : k \in 1..ManualCount(count)}
    IN  /\ IF Unauthorized(adminToken)
           THEN /\ resp' = Forbidden("generate-manual-codes", adminToken)
                /\ UNCHANGED <<generatedCodes, minted>>
           ELSE /\ minted.codes + ManualCount(count) <= MaxCodes
                /\ generatedCodes' =
                      [c \in DOMAIN generatedCodes \cup codes |->
                          IF c \in codes THEN ManualCode ELSE generatedCodes[c]]
                /\ minted' = [minted EXCEPT !.codes = @ + ManualCount(count)]
                /\ resp' = AdminResponse("generate-manual-codes", 200, adminToken,
                                         codes, Cardinality(codes), NULL, NULL)
        /\ UNCHANGED <<now, ticks, focus, env, sessions, userSessions, inflight,
                       activePayments, freeCompleted, outputDir>>

InitAdmin == \E environment \in EnvInputs : InitIn({}, environment)
NextAdmin ==
    \/ \E adminToken \in AdminTokenInputs : PremiumStats(adminToken)
    \/ \E adminToken \in AdminTokenInputs : SystemInfo(adminToken)
    \/ \E adminToken \in AdminTokenInputs, count \in CountInputs :
          GenerateManualCodes(adminToken, count)
    \/ UserStatus(NoUserId)
    \/ \E days \in TickSteps : Tick(days)
SpecAdmin == InitAdmin /\ [][NextAdmin]_vars

\* C33: an admin route answers 403 to every request whose x-admin-token
\* header differs from the server's admin token, whatever NODE_ENV is, and
\* such a request adds no code to generatedCodes.
C33_AdminRequiresToken ==
    (resp.route \in AdminRoutes /\ resp.adminToken # env.ADMIN_TOKEN) =>
        (resp.status = 403 /\ resp.codes = {})

----------------------------------------------------------------------------
(* The usage counts and the limits *)

\* C34: in every reachable state, with requests that overlap, with grants
\* and with expiries, the usage a session records for a tool with a finite
\* free limit never exceeds that limit.
C34_UsageWithinLimit ==
    \A u \in DOMAIN sessions : \A t \in FiniteTools :
        sessions[u].usage[t] <= toolConfigs[t].freeLimit

\* A session at its limit, reached by two overlapping requests that both
\* passed the check: one has written its count, the other is still to write
C34_Witness ==
    \E u \in DOMAIN sessions : \E t \in FiniteTools :
        /\ sessions[u].usage[t] = toolConfigs[t].freeLimit
        /\ \E r \in BagToSet(inflight) :
              /\ r.user = u /\ r.tool = t /\ r.pc = "processing"
              /\ ~r.isPremium
              /\ r.currentUsage = toolConfigs[t].freeLimit - 1

\* C35: a session the cleanup deleted is never put back into userSessions
\* by a request that resolved it before the cleanup ran and was still in
\* flight: once deleted, the userId stays absent.
C35_DeletedSessionStaysDeleted ==
    [][\A u \in DOMAIN sessions : u \notin userSessions => u \notin userSessions']_vars

----------------------------------------------------------------------------
(* The counters of a repair *)

\* The counters after the turn of the loop for the page at i alone
AfterPageAlone(doc, i, isPremium) ==
    AfterPage(Progress(doc, 0, 0, 0, 0, 0), i, doc.pages[i], isPremium)

\* C36: at every point of a repair, and so in its result and in its failure
\* message, issuesFixed <= issuesFound; the turn of the loop for one page
\* counts no more fixes than issues.
C36_FixedWithinFound ==
    \A r \in Repairs :
        /\ r.repair.st.issuesFixed <= r.repair.st.issuesFound
        /\ r.repair.parsed # NoDocument =>
              \A i \in DOMAIN r.repair.parsed.pages :
                 LET alone == AfterPageAlone(r.repair.parsed, i, r.isPremium)
                 IN  alone.issuesFixed <= alone.issuesFound

\* A repair that returned with some issues fixed and others only found
C36_Witness ==
    \E r \in Repairs :
        /\ r.repair.pc = "returned"
        /\ r.repair.st.issuesFixed > 0
        /\ r.repair.st.issuesFixed < r.repair.st.issuesFound

\* C37: in every result of a repair that succeeded, pagesRepaired <=
\* totalPages: a page is counted once, however many of its defects were fixed.
C37_PagesRepairedWithinTotal ==
    \A r \in Repairs :
        r.repair.pc = "returned" =>
            RepairResult(r.repair).repairStats.pagesRepaired
                <= RepairResult(r.repair).repairStats.totalPages

\* C38: the premium recreation replaces exactly the page that threw: after
\* the loop over pages the document has as many pages as were loaded, and
\* every page that did not throw is at its original position, whichever
\* pages throw and also when a recreation fails after its insertPage.
C38_RecreationReplacesInPlace ==
    \A r \in Repairs :
        (r.isPremium /\ r.repair.pc = "fonts") =>
            LET loaded == r.repair.parsed.pages
                pages == r.repair.st.pdfDoc.pages
            IN  /\ Len(pages) = Len(loaded)
                /\ \A i \in DOMAIN loaded :
                      loaded[i].throwsAt = "never" =>
                          (i \in DOMAIN pages /\ pages[i].no = i)

----------------------------------------------------------------------------
(* The captures and the activePayments Map *)

\* C39: a capture leaves activePayments as it was and does not depend on
\* it: a capture that succeeds, for an orderId in the Map or not, captured
\* before or not, adds a code that was not in generatedCodes, tied to that
\* orderId, and grants premium from now on to the resolved user.
C39_CaptureIgnoresPayments ==
    [][resp'.route = "capture-paypal-payment" =>
          /\ activePayments' = activePayments
          /\ resp'.status = 200 =>
                /\ resp'.code \notin DOMAIN generatedCodes
                /\ DOMAIN generatedCodes' = DOMAIN generatedCodes \cup {resp'.code}
                /\ generatedCodes'[resp'.code].paypalOrderId = resp'.orderId
                /\ sessions'[resp'.user].premiumUntil = now + PremiumDays]_vars

\* The same orderId, created by create-paypal-order and still pending in
\* the Map, has been captured twice: two codes carry it; and a code carries
\* an orderId the server never created
C39_Witness ==
    /\ resp.route = "capture-paypal-payment" /\ resp.status = 200
    /\ \E c, d \in DOMAIN generatedCodes :
          /\ c # d
          /\ generatedCodes[c].paypalOrderId = generatedCodes[d].paypalOrderId
          /\ generatedCodes[c].paypalOrderId \in DOMAIN activePayments
          /\ activePayments[generatedCodes[c].paypalOrderId].status = "pending"

----------------------------------------------------------------------------
(* editPDFEnhanced: the deletion of pages *)

MaxEditPages == 3     \* pages of an edited document
MaxDeleteList == 3    \* entries of edits.deletePages

\* The pages of a parsed document, each named by its index in the file
EditPagesInputs == {[k \in 1..n |-> k - 1] : n \in 1..MaxEditPages}

\* edits.deletePages: indices in range, -1, and the first index out of range
DeleteListInputs(n) ==
    UNION {[1..len -> -1..n] : len \in 0..MaxDeleteList}

RECURSIVE InsertDescending(_, _)
InsertDescending(sorted, x) ==
    IF sorted = <<>> THEN <<x>>
    ELSE IF x >= Head(sorted) THEN <<x>> \o sorted
    ELSE <<Head(sorted)>> \o InsertDescending(Tail(sorted), x)

RECURSIVE SortDescending(_)
\* [...edits.deletePages].sort((a, b) => b - a)
SortDescending(list) ==
    IF list = <<>> THEN <<>>
    ELSE InsertDescending(SortDescending(Tail(list)), Head(list))

RECURSIVE AfterDeletes(_, _, _)
\* pagesToDelete.forEach: an index within pages.length, the length of the
\* array read before the edits, is passed to pdfDoc.removePage, which
\* removes the page now at that index and throws when there is none
AfterDeletes(doc, todo, length) ==
    IF todo = <<>> THEN [pages |-> doc, thrown |-> FALSE]
    ELSE LET pageIndex == Head(todo)
         IN  IF pageIndex >= 0 /\ pageIndex < length
             THEN IF pageIndex < Len(doc)
                  THEN AfterDeletes(RemoveAt(doc, pageIndex + 1), Tail(todo), length)
                  ELSE [pages |-> doc, thrown |-> TRUE]
             ELSE AfterDeletes(doc, Tail(todo), length)

\* The locals of editPDFEnhanced: pc is the await it is suspended at, or how
\* it ended; parsed and deletePages are history
EditLocals(pc, pages, parsed, deletePages, error) ==
    [pc |-> pc, pages |-> pages, parsed |-> parsed, deletePages |-> deletePages,
     error |-> error]

\* A process-pdf handler suspended inside editPDFEnhanced
EditRequest(r, locals) ==
    [user |-> r.user, tool |-> r.tool, convertTo |-> r.convertTo, pc |-> r.pc,
     isPremium |-> r.isPremium, currentUsage |-> r.currentUsage,
     usage0 |-> r.usage0, edit |-> locals]

InEdit(r) == "edit" \in DOMAIN r

Edits == {r \in BagToSet(inflight) : InEdit(r)}

ResumeEdit(r, locals) ==
    /\ inflight' = (inflight (-) SetToBag({r})) (+) SetToBag({EditRequest(r, locals)})
    /\ resp' = NoResp
    /\ UNCHANGED <<now, ticks, focus, env, sessions, userSessions, generatedCodes,
                   activePayments, minted, freeCompleted, outputDir>>

\* case 'edit': editPDFEnhanced(files[0], req.body.edits || {}, isPremium),
\* up to await PDFDocument.load
EditStart(r) ==
    /\ BagIn(r, inflight)
    /\ ~InEdit(r)
    /\ r.tool = "edit"
    /\ r.pc = "processing"
    /\ ResumeEdit(r, EditLocals("load", <<>>, <<>>, <<>>, ""))

\* PDFDocument.load ends; the edits run, here the deletion alone, up to
\* await pdfDoc.save
AfterEditLoad(parsed, deletePages) ==
    LET deleted == AfterDeletes(parsed, SortDescending(deletePages), Len(parsed))
    IN  IF deleted.thrown
        THEN EditLocals("thrown", deleted.pages, parsed, deletePages, "removePage")
        ELSE EditLocals("save", deleted.pages, parsed, deletePages, "")

EditLoadDone(r, ok, parsed, deletePages) ==
    /\ r \in Edits
    /\ r.edit.pc = "load"
    /\ ResumeEdit(r, IF ok THEN AfterEditLoad(parsed, deletePages)
                     ELSE EditLocals("thrown", <<>>, <<>>, <<>>, "load"))

EditSaveDone(r, ok) ==
    /\ r \in Edits
    /\ r.edit.pc = "save"
    /\ ResumeEdit(r, [r.edit EXCEPT !.pc = IF ok THEN "returned" ELSE "thrown",
                                    !.error = IF ok THEN "" ELSE "save"])

\* editPDFEnhanced has ended: the handler goes on after the switch, or in
\* its catch
EditDone(r) ==
    /\ r \in Edits
    /\ r.edit.pc \in {"returned", "thrown"}
    /\ r.pc = "processing"
    /\ ProcessingDone(r, r.edit.pc = "returned")

NextEdit ==
    \/ \E userId \in {NoUserId} \cup DOMAIN sessions :
          ProcessPdf(1, userId, 1, "edit", NoFormat)
    \/ \E r \in BagToSet(inflight) : EditStart(r)
    \/ \E r \in Edits, ok \in BOOLEAN :
          \E parsed \in (IF ok THEN EditPagesInputs ELSE {<<>>}) :
          \E deletePages \in (IF ok THEN DeleteListInputs(Len(parsed)) ELSE {<<>>}) :
             EditLoadDone(r, ok, parsed, deletePages)
    \/ \E r \in Edits, ok \in BOOLEAN : EditSaveDone(r, ok)
    \/ \E r \in Edits : EditDone(r)
    \/ \E r \in BagToSet(inflight), ok \in BOOLEAN :
          WriteDone(r, ok) /\ ResultUntracked
SpecEdit == InitWith({"edit"}) /\ [][NextEdit]_vars

\* The pages that are not listed, in their order
PagesNotListed(parsed, deletePages) ==
    SelectSeq(parsed, LAMBDA p : p \notin {deletePages[k] : k \in DOMAIN deletePages})

\* C40: deletePages removes exactly the pages of the original document
\* whose indices are listed and in range, and no other page, for every list
\* of indices, with repeated indices and in any order.
C40_DeletesExactlyListed ==
    \A r \in Edits :
        /\ r.edit.error # "removePage"
        /\ r.edit.pc \in {"save", "returned"} =>
              r.edit.pages = PagesNotListed(r.edit.parsed, r.edit.deletePages)

====
